---------------------------- MODULE Spec2Model ----------------------------
(***************************************************************************)
(* A model of the DuckDB "ranges" extension (src/src/ranges_extension.cpp): *)
(* the INT4RANGE and NUMRANGE value types, their binary codec, their text  *)
(* parser and formatter, and their predicates.                             *)
(*                                                                         *)
(* Every SQL-visible handler of the extension is one action.  A handler is *)
(* a pure function of one row, so the state is the trace of the calls made *)
(* so far on one value: a call either takes fresh arguments or takes the   *)
(* result of the previous call (a cast applied to the result of a cast).   *)
(* This is the specification Spec.                                         *)
(*                                                                         *)
(* The specification SpecBatch runs the loops of the handlers that walk a  *)
(* vector of rows themselves, one row a step.  The specification           *)
(* SpecThreads runs several calls at once, one on each thread, and         *)
(* interleaves their writes to the result buffers.                         *)
(*                                                                         *)
(* Text is a sequence of one-character strings; a blob is a sequence of    *)
(* bytes 0..255.                                                           *)
(***************************************************************************)
EXTENDS Integers, Sequences, FiniteSets, TLC

VARIABLES
    trace,      \* the calls of one SQL expression, innermost first
    batch,      \* the vector a handler's loop is walking, and how far it is
    threads,    \* the call each thread is making, and how far it is
    buffers     \* the bytes of the result buffer of each call

vars == <<trace, batch, threads, buffers>>

---------------------------------------------------------------------------
\* Bounds of the model.

\* Integer bounds are drawn from -MaxInt..MaxInt and the two int32 extremes.
MaxInt == 1

\* NUMRANGE bounds are drawn from the whole numbers -MaxNum..MaxNum and a few
\* fractions around them.
MaxNum == 1

\* A double is modelled as a fixed-point decimal with FracDigits digits
\* after the point: the integer n stands for n / 10^FracDigits.
FracDigits == 7

\* The longest chain of calls applied to one value.
MaxChain == 3

\* The most rows of a vector given to a handler.
MaxRows == 2

\* The number of threads that execute calls at once.
NumThreads == 2

---------------------------------------------------------------------------
\* Program constants.

INT_MAX == 2147483647

\* -2^31, written within the 32-bit range of the checker's integers.
INT_MIN == (-INT_MAX) - 1

\* sizeof(int32_t) and sizeof(double)
SizeofInt32 == 4

SizeofDouble == 8

\* std::to_string(double) is sprintf("%f"): six digits after the point.
PrintDigits == 6

Scale == 10 ^ FracDigits

---------------------------------------------------------------------------
\* Characters.

Digits == <<"0", "1", "2", "3", "4", "5", "6", "7", "8", "9">>

IsDigit(c) == \E i \in 1..10 : Digits[i] = c

DigitVal(c) == (CHOOSE i \in 1..10 : Digits[i] = c) - 1

DigitChar(d) == Digits[d + 1]

\* std::isspace on the characters of the model's alphabet.
IsSpace(c) == c = " "

\* The lower-case letter of a character (StringUtil::CIEquals compares the
\* lower-cased characters); only the letters of "empty" are in the alphabet.
ToLower(c) ==
    CASE c = "E" -> "e"
      [] c = "M" -> "m"
      [] c = "P" -> "p"
      [] c = "T" -> "t"
      [] c = "Y" -> "y"
      [] OTHER -> c

\* A faulty comparison: the case of the letters counts.
CIEqualsExact(a, b) == a = b

\* StringUtil::CIEquals(a, b): same length and equal ignoring case.
CIEquals(a, b) ==
    /\ Len(a) = Len(b)
    /\ \A i \in 1..Len(a) : ToLower(a[i]) = ToLower(b[i])

---------------------------------------------------------------------------
\* Raw scalar bytes (memcpy of an int32_t / a double, little-endian).

\* The low 31 bits of the two's complement pattern of an int32: x itself for
\* x >= 0 and x + 2^31 for x < 0 (written so that no intermediate value
\* leaves the 32-bit range).
Low31(x) == IF x >= 0 THEN x ELSE (x + INT_MAX) + 1

\* memcpy(ptr, &x, sizeof(int32_t)): the four bytes of x, least significant
\* first; the sign is bit 7 of the last byte.
Int32Bytes(x) ==
    << Low31(x) % 256,
       (Low31(x) \div 256) % 256,
       (Low31(x) \div 65536) % 256,
       (Low31(x) \div 16777216) + (IF x < 0 THEN 128 ELSE 0) >>

\* memcpy(&x, ptr, sizeof(int32_t)) from the bytes b[at+1..at+4].
Int32At(b, at) ==
    LET lo == b[at + 1] + 256 * b[at + 2] + 65536 * b[at + 3]
              + 16777216 * (b[at + 4] % 128)
    IN  IF b[at + 4] >= 128 THEN (lo - INT_MAX) - 1 ELSE lo

\* memcpy of a double.  The code never looks inside the eight bytes, so the
\* bit pattern of the double is stood for by the 64-bit two's complement
\* pattern of its fixed-point numerator (sign-extended from 32 bits).
DoubleBytes(x) ==
    Int32Bytes(x) \o [i \in 1..4 |-> IF x < 0 THEN 255 ELSE 0]

DoubleAt(b, at) == Int32At(b, at)

---------------------------------------------------------------------------
\* INT4RANGE codec.

Int4Range(lower, upper, lower_inc, upper_inc) ==
    [lower |-> lower, upper |-> upper,
     lower_inc |-> lower_inc, upper_inc |-> upper_inc]

\* A result of a function that may throw.
Ok(v) == [ok |-> TRUE, val |-> v]

Throw(e) == [ok |-> FALSE, err |-> e]

\* A faulty packing: the two flag bits exchanged.
PackBoundsExchanged(lower_inc, upper_inc) ==
    (IF lower_inc THEN 1 ELSE 0) + (IF upper_inc THEN 2 ELSE 0)

\* uint8_t bounds = (lower_inc ? 0b10 : 0) | (upper_inc ? 0b01 : 0)
PackBounds(lower_inc, upper_inc) ==
    (IF lower_inc THEN 2 ELSE 0) + (IF upper_inc THEN 1 ELSE 0)

SerializeInt4Range(range) ==
    Int32Bytes(range.lower) \o Int32Bytes(range.upper)
      \o <<PackBounds(range.lower_inc, range.upper_inc)>>

\* A faulty decoder: it reads the upper bound where the lower bound is.
DeserializeInt4RangeSameOffset(blob) ==
    LET expected_size == SizeofInt32 * 2 + 1
    IN  IF Len(blob) < expected_size
        THEN Throw("MalformedEncoding")
        ELSE Ok(Int4Range(Int32At(blob, SizeofInt32),
                          Int32At(blob, SizeofInt32),
                          (blob[SizeofInt32 * 2 + 1] \div 2) % 2 # 0,
                          blob[SizeofInt32 * 2 + 1] % 2 # 0))

\* A faulty decoder: a blob with bytes after the value is refused.
DeserializeInt4RangeExactSize(blob) ==
    LET expected_size == SizeofInt32 * 2 + 1
    IN  IF Len(blob) # expected_size
        THEN Throw("MalformedEncoding")
        ELSE Ok(Int4Range(Int32At(blob, 0),
                          Int32At(blob, SizeofInt32),
                          (blob[SizeofInt32 * 2 + 1] \div 2) % 2 # 0,
                          blob[SizeofInt32 * 2 + 1] % 2 # 0))

DeserializeInt4Range(blob) ==
    LET expected_size == SizeofInt32 * 2 + 1
    IN  IF Len(blob) < expected_size
        THEN Throw("MalformedEncoding")
        ELSE Ok(Int4Range(Int32At(blob, 0),
                          Int32At(blob, SizeofInt32),
                          (blob[SizeofInt32 * 2 + 1] \div 2) % 2 # 0,
                          blob[SizeofInt32 * 2 + 1] % 2 # 0))

\* A faulty emptiness test: equal bounds are always empty.
IsEmptyEqualBounds(range) == range.lower >= range.upper

IsEmpty(range) ==
    IF range.lower > range.upper
    THEN TRUE
    ELSE IF range.lower = range.upper
         THEN ~(range.lower_inc /\ range.upper_inc)
         ELSE FALSE

ConstructInt4RangeValue(lower, upper, lower_inc, upper_inc) ==
    SerializeInt4Range(Int4Range(lower, upper, lower_inc, upper_inc))

---------------------------------------------------------------------------
\* Scalar text conversions of the C++ library, as the code calls them.

RECURSIVE SkipSpace(_)
\* The text after its leading whitespace (strtol and strtod skip it).
SkipSpace(s) ==
    IF s # <<>> /\ IsSpace(Head(s)) THEN SkipSpace(Tail(s)) ELSE s

RECURSIVE DigitPrefix(_)
\* The longest prefix of decimal digits.
DigitPrefix(s) ==
    IF s # <<>> /\ IsDigit(Head(s))
    THEN <<Head(s)>> \o DigitPrefix(Tail(s))
    ELSE <<>>

\* The text after an optional sign.
AfterSign(s) == IF s # <<>> /\ Head(s) \in {"-", "+"} THEN Tail(s) ELSE s

RECURSIVE NegMagnitude(_, _)
\* Minus the number written by the digits ds, accumulated from acc, or 1
\* when it is below INT_MIN (the accumulation is done on the negative side,
\* where the 32-bit range has one value more).
NegMagnitude(ds, acc) ==
    IF ds = <<>>
    THEN acc
    ELSE LET d == DigitVal(Head(ds))
         IN  IF \/ acc < -(INT_MAX \div 10)
                \/ (acc = -(INT_MAX \div 10) /\ d > (INT_MAX % 10) + 1)
             THEN 1
             ELSE NegMagnitude(Tail(ds), acc * 10 - d)

\* A faulty conversion: a number that is no int is clamped to the nearest.
StoIClamp(str) ==
    LET t   == SkipSpace(str)
        neg == t # <<>> /\ Head(t) = "-"
        ds  == DigitPrefix(AfterSign(t))
        m   == NegMagnitude(ds, 0)
    IN  IF ds = <<>>
        THEN Throw("invalid_argument")
        ELSE IF m = 1 \/ (~neg /\ m = INT_MIN)
             THEN Ok(IF neg THEN INT_MIN ELSE INT_MAX)
             ELSE Ok(IF neg THEN m ELSE -m)

\* std::stoi(str): skips whitespace, reads an optional sign and the longest
\* run of digits, and ignores what follows; throws std::invalid_argument when
\* there is no digit and std::out_of_range when the number is no int.
StoI(str) ==
    LET t   == SkipSpace(str)
        neg == t # <<>> /\ Head(t) = "-"
        ds  == DigitPrefix(AfterSign(t))
        m   == NegMagnitude(ds, 0)
    IN  IF ds = <<>>
        THEN Throw("invalid_argument")
        ELSE IF m = 1 \/ (~neg /\ m = INT_MIN)
             THEN Throw("out_of_range")
             ELSE Ok(IF neg THEN m ELSE -m)

RECURSIVE NegDigits(_)
\* The decimal digits of -n, for n <= 0 (none for 0).
NegDigits(n) ==
    IF n = 0
    THEN <<>>
    ELSE LET d == (10 - (n % 10)) % 10
         IN  NegDigits((n + d) \div 10) \o <<DigitChar(d)>>

\* A faulty conversion: the minus sign is not written.
ToStringIntUnsigned(n) ==
    IF n = 0 THEN <<"0">>
    ELSE IF n < 0 THEN NegDigits(n)
    ELSE NegDigits(-n)

\* std::to_string(int)
ToStringInt(n) ==
    IF n = 0 THEN <<"0">>
    ELSE IF n < 0 THEN <<"-">> \o NegDigits(n)
    ELSE NegDigits(-n)

\* A faulty search: the end of the text stands for a comma that is missing.
FindCommaOrEnd(s) ==
    IF \E i \in 1..Len(s) : s[i] = ","
    THEN CHOOSE i \in 1..Len(s) : s[i] = "," /\ \A j \in 1..(i - 1) : s[j] # ","
    ELSE Len(s)

\* s.find(','): the 1-based position of the first comma, 0 for npos.
FindComma(s) ==
    IF \E i \in 1..Len(s) : s[i] = ","
    THEN CHOOSE i \in 1..Len(s) : s[i] = "," /\ \A j \in 1..(i - 1) : s[j] # ","
    ELSE 0

---------------------------------------------------------------------------
\* INT4RANGE text parser and formatter.

EmptyWord == <<"e", "m", "p", "t", "y">>

\* A faulty parser: a literal that denotes an empty range gives the canonical
\* empty value.
ParseInt4RangeCanonical(input_str) ==
    LET s         == input_str
        comma_pos == FindComma(s)
        lower     == StoI(SubSeq(s, 2, comma_pos - 1))
        upper     == StoI(SubSeq(s, comma_pos + 1, Len(s) - 1))
        range     == Int4Range(lower.val, upper.val, Head(s) = "[", s[Len(s)] = "]")
    IN  IF CIEquals(s, EmptyWord)
        THEN Ok(Int4Range(1, 0, FALSE, FALSE))
        ELSE IF \/ Len(s) < 3
                \/ Head(s) \notin {"[", "("}
                \/ s[Len(s)] \notin {"]", ")"}
                \/ comma_pos = 0
        THEN Throw("MalformedLiteral")
        ELSE IF ~lower.ok \/ ~upper.ok
        THEN Throw("InvalidScalar")
        ELSE IF IsEmpty(range)
        THEN Ok(Int4Range(1, 0, FALSE, FALSE))
        ELSE Ok(range)

ParseInt4Range(input_str) ==
    LET s         == input_str
        comma_pos == FindComma(s)
        lower_str == SubSeq(s, 2, comma_pos - 1)
        upper_str == SubSeq(s, comma_pos + 1, Len(s) - 1)
        lower     == StoI(lower_str)
        upper     == StoI(upper_str)
    IN  IF CIEquals(s, EmptyWord)
        THEN Ok(Int4Range(1, 0, FALSE, FALSE))
        ELSE IF Len(s) < 3
        THEN Throw("MalformedLiteral")
        ELSE IF Head(s) \notin {"[", "("}
        THEN Throw("MalformedLiteral")
        ELSE IF s[Len(s)] \notin {"]", ")"}
        THEN Throw("MalformedLiteral")
        ELSE IF comma_pos = 0
        THEN Throw("MalformedLiteral")
        ELSE IF ~lower.ok \/ ~upper.ok
        THEN Throw("InvalidScalar")
        ELSE Ok(Int4Range(lower.val, upper.val, Head(s) = "[", s[Len(s)] = "]"))

\* A faulty formatter: the upper bound is always written as exclusive.
Int4RangeTextHalfOpen(range) ==
    IF IsEmpty(range)
    THEN EmptyWord
    ELSE <<IF range.lower_inc THEN "[" ELSE "(">> \o ToStringInt(range.lower)
           \o <<",">> \o ToStringInt(range.upper) \o <<")">>

\* The text Int4RangeToVarchar builds for a deserialized range.
Int4RangeText(range) ==
    IF IsEmpty(range)
    THEN EmptyWord
    ELSE <<IF range.lower_inc THEN "[" ELSE "(">> \o ToStringInt(range.lower)
           \o <<",">> \o ToStringInt(range.upper)
           \o <<IF range.upper_inc THEN "]" ELSE ")">>

---------------------------------------------------------------------------
\* NUMRANGE codec.

NumRange(lower, upper, lower_inc, upper_inc) ==
    [lower |-> lower, upper |-> upper,
     lower_inc |-> lower_inc, upper_inc |-> upper_inc]

SerializeNumRange(range) ==
    DoubleBytes(range.lower) \o DoubleBytes(range.upper)
      \o <<PackBounds(range.lower_inc, range.upper_inc)>>

DeserializeNumRange(blob) ==
    LET expected_size == SizeofDouble * 2 + 1
    IN  IF Len(blob) < expected_size
        THEN Throw("MalformedEncoding")
        ELSE Ok(NumRange(DoubleAt(blob, 0),
                         DoubleAt(blob, SizeofDouble),
                         (blob[SizeofDouble * 2 + 1] \div 2) % 2 # 0,
                         blob[SizeofDouble * 2 + 1] % 2 # 0))

\* A faulty emptiness test: equal bounds are never empty.
IsEmptyNumInverted(range) == range.lower > range.upper

IsEmptyNum(range) ==
    IF range.lower > range.upper
    THEN TRUE
    ELSE IF range.lower = range.upper
         THEN ~(range.lower_inc /\ range.upper_inc)
         ELSE FALSE

ConstructNumRangeValue(lower, upper, lower_inc, upper_inc) ==
    SerializeNumRange(NumRange(lower, upper, lower_inc, upper_inc))

---------------------------------------------------------------------------
\* NUMRANGE text parser and formatter.

RECURSIVE DigitsValue(_, _)
\* The number written by the digits ds, accumulated from acc.
DigitsValue(ds, acc) ==
    IF ds = <<>> THEN acc
    ELSE DigitsValue(Tail(ds), acc * 10 + DigitVal(Head(ds)))

RECURSIVE FracValue(_, _)
\* The fixed-point value of the fraction digits fp, the first of weight
\* 10^(k-1) units; digits below the resolution of the model are dropped.
FracValue(fp, k) ==
    IF fp = <<>> \/ k = 0 THEN 0
    ELSE DigitVal(Head(fp)) * 10 ^ (k - 1) + FracValue(Tail(fp), k - 1)

\* std::stod(str) on decimal text: skips whitespace, reads an optional sign,
\* digits, and an optional point and digits, and ignores what follows; throws
\* std::invalid_argument when there is no digit at all.  (The texts of the
\* model hold no exponent, "inf", "nan" or hexadecimal number, and no number
\* near the range of a double.)
StoD(str) ==
    LET t    == SkipSpace(str)
        neg  == t # <<>> /\ Head(t) = "-"
        u    == AfterSign(t)
        ip   == DigitPrefix(u)
        rest == SubSeq(u, Len(ip) + 1, Len(u))
        fp   == IF rest # <<>> /\ Head(rest) = "."
                THEN DigitPrefix(Tail(rest)) ELSE <<>>
        mag  == DigitsValue(ip, 0) * Scale + FracValue(fp, FracDigits)
    IN  IF ip = <<>> /\ fp = <<>>
        THEN Throw("invalid_argument")
        ELSE Ok(IF neg THEN -mag ELSE mag)

RECURSIVE FixedDigits(_, _)
\* The last k decimal digits of v, zero-padded.
FixedDigits(v, k) ==
    IF k = 0 THEN <<>>
    ELSE FixedDigits(v \div 10, k - 1) \o <<DigitChar(v % 10)>>

\* The decimal text of units / 10^digits with exactly `digits` digits after
\* the point, with a minus sign when neg.
DecimalText(neg, units, digits) ==
    (IF neg THEN <<"-">> ELSE <<>>)
      \o (IF units \div (10 ^ digits) = 0 THEN <<"0">>
          ELSE NegDigits(-(units \div (10 ^ digits))))
      \o <<".">> \o FixedDigits(units % (10 ^ digits), digits)

\* The magnitude of n in units of 10^-PrintDigits, rounded to nearest as
\* printf("%f") does.  printf rounds the exact binary value of the double,
\* which is never exactly half-way between two six-digit decimals: a decimal
\* half-way case goes up or down depending on the double, so both outcomes
\* are possible.
RoundedMagnitudes(n) ==
    LET q == 10 ^ (FracDigits - PrintDigits)
        m == IF n < 0 THEN -n ELSE n
        r == m % q
    IN  IF 2 * r < q THEN {m \div q}
        ELSE IF 2 * r > q THEN {(m \div q) + 1}
        ELSE {m \div q, (m \div q) + 1}

\* A faulty conversion: the minus sign is not written.
ToStringDoubleUnsigned(n) ==
    {DecimalText(FALSE, r, PrintDigits) : r \in RoundedMagnitudes(n)}

\* std::to_string(double): the texts it may produce for n.
ToStringDouble(n) ==
    {DecimalText(n < 0, r, PrintDigits) : r \in RoundedMagnitudes(n)}

ParseNumRange(input_str) ==
    LET s         == input_str
        comma_pos == FindComma(s)
        lower_str == SubSeq(s, 2, comma_pos - 1)
        upper_str == SubSeq(s, comma_pos + 1, Len(s) - 1)
        lower     == StoD(lower_str)
        upper     == StoD(upper_str)
    IN  IF CIEquals(s, EmptyWord)
        THEN Ok(NumRange(1 * Scale, 0 * Scale, FALSE, FALSE))
        ELSE IF Len(s) < 3
        THEN Throw("MalformedLiteral")
        ELSE IF Head(s) \notin {"[", "("}
        THEN Throw("MalformedLiteral")
        ELSE IF s[Len(s)] \notin {"]", ")"}
        THEN Throw("MalformedLiteral")
        ELSE IF comma_pos = 0
        THEN Throw("MalformedLiteral")
        ELSE IF ~lower.ok \/ ~upper.ok
        THEN Throw("InvalidScalar")
        ELSE Ok(NumRange(lower.val, upper.val, Head(s) = "[", s[Len(s)] = "]"))

\* The texts NumRangeToVarchar may build for a deserialized range.
NumRangeTexts(range) ==
    IF IsEmptyNum(range)
    THEN {EmptyWord}
    ELSE {<<IF range.lower_inc THEN "[" ELSE "(">> \o lt \o <<",">> \o ut
            \o <<IF range.upper_inc THEN "]" ELSE ")">> :
          lt \in ToStringDouble(range.lower), ut \in ToStringDouble(range.upper)}

---------------------------------------------------------------------------
\* Typed SQL values: what a handler is given and what it returns.

Integer(v) == [kind |-> "INTEGER", val |-> v]

Double(v) == [kind |-> "DOUBLE", val |-> v]

Boolean(v) == [kind |-> "BOOLEAN", val |-> v]

Varchar(v) == [kind |-> "VARCHAR", val |-> v]

Int4RangeBlob(v) == [kind |-> "INT4RANGE", val |-> v]

NumRangeBlob(v) == [kind |-> "NUMRANGE", val |-> v]

\* FlatVector::SetNull(result, i, true)
NullValue == [kind |-> "NULL", val |-> <<>>]

\* throw InvalidInputException(...): the query fails with this error.
Error(e) == [kind |-> "error", val |-> e]

IsNull(v) == v.kind = "NULL"

---------------------------------------------------------------------------
\* INT4RANGE handlers, one row each.

\* The body of the loop of Int4RangeConstructor4.
Int4RangeConstructor4Row(lower, upper, lower_inc, upper_inc) ==
    IF IsNull(lower) \/ IsNull(upper) \/ IsNull(lower_inc) \/ IsNull(upper_inc)
    THEN NullValue
    ELSE Int4RangeBlob(ConstructInt4RangeValue(lower.val, upper.val,
                                               lower_inc.val, upper_inc.val))

\* A faulty constructor: a token it does not know leaves the default bounds.
Int4RangeConstructorRowDefault(lower, upper, bounds_blob) ==
    LET bounds_str == bounds_blob.val
    IN  IF bounds_str = <<"[", "]">>
        THEN Int4RangeBlob(ConstructInt4RangeValue(lower.val, upper.val, TRUE, TRUE))
        ELSE IF bounds_str = <<"(", "]">>
        THEN Int4RangeBlob(ConstructInt4RangeValue(lower.val, upper.val, FALSE, TRUE))
        ELSE IF bounds_str = <<"(", ")">>
        THEN Int4RangeBlob(ConstructInt4RangeValue(lower.val, upper.val, FALSE, FALSE))
        ELSE Int4RangeBlob(ConstructInt4RangeValue(lower.val, upper.val, TRUE, FALSE))

\* The lambda of Int4RangeConstructor.
Int4RangeConstructorRow(lower, upper, bounds_blob) ==
    LET bounds_str == bounds_blob.val
    IN  IF bounds_str = <<>>
        THEN Int4RangeBlob(ConstructInt4RangeValue(lower.val, upper.val, TRUE, FALSE))
        ELSE IF bounds_str = <<"[", ")">>
        THEN Int4RangeBlob(ConstructInt4RangeValue(lower.val, upper.val, TRUE, FALSE))
        ELSE IF bounds_str = <<"[", "]">>
        THEN Int4RangeBlob(ConstructInt4RangeValue(lower.val, upper.val, TRUE, TRUE))
        ELSE IF bounds_str = <<"(", "]">>
        THEN Int4RangeBlob(ConstructInt4RangeValue(lower.val, upper.val, FALSE, TRUE))
        ELSE IF bounds_str = <<"(", ")">>
        THEN Int4RangeBlob(ConstructInt4RangeValue(lower.val, upper.val, FALSE, FALSE))
        ELSE Error("InvalidBoundsNotation")

\* A faulty constructor: the default bounds are '[]'.
Int4RangeConstructor2RowClosed(lower, upper) ==
    Int4RangeBlob(ConstructInt4RangeValue(lower.val, upper.val, TRUE, TRUE))

\* The lambda of Int4RangeConstructor2.
Int4RangeConstructor2Row(lower, upper) ==
    Int4RangeBlob(ConstructInt4RangeValue(lower.val, upper.val, TRUE, FALSE))

\* A faulty formatter: the bounds are written whether the range is empty or
\* not.
Int4RangeToVarcharRowBounds(source) ==
    IF IsNull(source)
    THEN NullValue
    ELSE LET range == DeserializeInt4Range(source.val)
             r     == range.val
         IN  IF ~range.ok THEN Error(range.err)
             ELSE Varchar(<<IF r.lower_inc THEN "[" ELSE "(">>
                            \o ToStringInt(r.lower) \o <<",">>
                            \o ToStringInt(r.upper)
                            \o <<IF r.upper_inc THEN "]" ELSE ")">>)

\* The body of the loop of Int4RangeToVarchar.
Int4RangeToVarcharRow(source) ==
    IF IsNull(source)
    THEN NullValue
    ELSE LET range == DeserializeInt4Range(source.val)
         IN  IF ~range.ok THEN Error(range.err)
             ELSE Varchar(Int4RangeText(range.val))

\* The body of the loop of VarcharToInt4RangeCast.
VarcharToInt4RangeCastRow(source) ==
    IF IsNull(source)
    THEN NullValue
    ELSE LET range == ParseInt4Range(source.val)
         IN  IF ~range.ok THEN Error(range.err)
             ELSE Int4RangeBlob(SerializeInt4Range(range.val))

\* The lambda of Int4RangeConstructor1.
Int4RangeConstructor1Row(input) ==
    LET range == ParseInt4Range(input.val)
    IN  IF ~range.ok THEN Error(range.err)
        ELSE Int4RangeBlob(SerializeInt4Range(range.val))

\* A faulty overlap test: ranges that touch overlap as soon as one of the two
\* bounds that meet is inclusive.
RangeOverlapsRowOneInclusive(r1_blob, r2_blob) ==
    LET d1 == DeserializeInt4Range(r1_blob.val)
        d2 == DeserializeInt4Range(r2_blob.val)
        r1 == d1.val
        r2 == d2.val
        r1_left_of_r2 ==
            \/ r1.upper < r2.lower
            \/ (r1.upper = r2.lower /\ (~r1.upper_inc /\ ~r2.lower_inc))
        r2_left_of_r1 ==
            \/ r2.upper < r1.lower
            \/ (r2.upper = r1.lower /\ (~r2.upper_inc /\ ~r1.lower_inc))
    IN  IF ~d1.ok THEN Error(d1.err)
        ELSE IF ~d2.ok THEN Error(d2.err)
        ELSE IF IsEmpty(r1) \/ IsEmpty(r2) THEN Boolean(FALSE)
        ELSE Boolean(~(r1_left_of_r2 \/ r2_left_of_r1))

\* A faulty overlap test: ranges that touch never overlap.
RangeOverlapsRowTouching(r1_blob, r2_blob) ==
    LET d1 == DeserializeInt4Range(r1_blob.val)
        d2 == DeserializeInt4Range(r2_blob.val)
        r1 == d1.val
        r2 == d2.val
    IN  IF ~d1.ok THEN Error(d1.err)
        ELSE IF ~d2.ok THEN Error(d2.err)
        ELSE IF IsEmpty(r1) \/ IsEmpty(r2) THEN Boolean(FALSE)
        ELSE Boolean(~(r1.upper <= r2.lower \/ r2.upper <= r1.lower))

\* A faulty overlap test: it does not look for empty operands.
RangeOverlapsRowNoEmpty(r1_blob, r2_blob) ==
    LET d1 == DeserializeInt4Range(r1_blob.val)
        d2 == DeserializeInt4Range(r2_blob.val)
        r1 == d1.val
        r2 == d2.val
        r1_left_of_r2 ==
            \/ r1.upper < r2.lower
            \/ (r1.upper = r2.lower /\ (~r1.upper_inc \/ ~r2.lower_inc))
        r2_left_of_r1 ==
            \/ r2.upper < r1.lower
            \/ (r2.upper = r1.lower /\ (~r2.upper_inc \/ ~r1.lower_inc))
    IN  IF ~d1.ok THEN Error(d1.err)
        ELSE IF ~d2.ok THEN Error(d2.err)
        ELSE Boolean(~(r1_left_of_r2 \/ r2_left_of_r1))

\* A faulty overlap test: it asks only whether r1 lies left of r2.
RangeOverlapsRowOneSided(r1_blob, r2_blob) ==
    LET d1 == DeserializeInt4Range(r1_blob.val)
        d2 == DeserializeInt4Range(r2_blob.val)
        r1 == d1.val
        r2 == d2.val
        r1_left_of_r2 ==
            \/ r1.upper < r2.lower
            \/ (r1.upper = r2.lower /\ (~r1.upper_inc \/ ~r2.lower_inc))
    IN  IF ~d1.ok THEN Error(d1.err)
        ELSE IF ~d2.ok THEN Error(d2.err)
        ELSE IF IsEmpty(r1) \/ IsEmpty(r2) THEN Boolean(FALSE)
        ELSE Boolean(~r1_left_of_r2)

\* The lambda of RangeOverlaps.
RangeOverlapsRow(r1_blob, r2_blob) ==
    LET d1 == DeserializeInt4Range(r1_blob.val)
        d2 == DeserializeInt4Range(r2_blob.val)
        r1 == d1.val
        r2 == d2.val
        r1_left_of_r2 ==
            \/ r1.upper < r2.lower
            \/ (r1.upper = r2.lower /\ (~r1.upper_inc \/ ~r2.lower_inc))
        r2_left_of_r1 ==
            \/ r2.upper < r1.lower
            \/ (r2.upper = r1.lower /\ (~r2.upper_inc \/ ~r1.lower_inc))
    IN  IF ~d1.ok THEN Error(d1.err)
        ELSE IF ~d2.ok THEN Error(d2.err)
        ELSE IF IsEmpty(r1) \/ IsEmpty(r2) THEN Boolean(FALSE)
        ELSE Boolean(~(r1_left_of_r2 \/ r2_left_of_r1))

\* A faulty containment test: the lower bound is always taken as inclusive.
RangeContainsRowLowerClosed(range_blob, value) ==
    LET d     == DeserializeInt4Range(range_blob.val)
        range == d.val
        below_upper ==
            \/ value.val < range.upper
            \/ (value.val = range.upper /\ range.upper_inc)
    IN  IF ~d.ok THEN Error(d.err)
        ELSE IF IsEmpty(range) THEN Boolean(FALSE)
        ELSE Boolean(value.val >= range.lower /\ below_upper)

\* The lambda of RangeContains.
RangeContainsRow(range_blob, value) ==
    LET d     == DeserializeInt4Range(range_blob.val)
        range == d.val
        above_lower ==
            \/ value.val > range.lower
            \/ (value.val = range.lower /\ range.lower_inc)
        below_upper ==
            \/ value.val < range.upper
            \/ (value.val = range.upper /\ range.upper_inc)
    IN  IF ~d.ok THEN Error(d.err)
        ELSE IF IsEmpty(range) THEN Boolean(FALSE)
        ELSE Boolean(above_lower /\ below_upper)

\* A faulty containment test: the upper bound is always taken as exclusive.
RangeContainedByRowExclusive(value, range_blob) ==
    LET d     == DeserializeInt4Range(range_blob.val)
        range == d.val
        above_lower ==
            \/ value.val > range.lower
            \/ (value.val = range.lower /\ range.lower_inc)
    IN  IF ~d.ok THEN Error(d.err)
        ELSE IF IsEmpty(range) THEN Boolean(FALSE)
        ELSE Boolean(above_lower /\ value.val < range.upper)

\* The lambda of RangeContainedBy.
RangeContainedByRow(value, range_blob) ==
    LET d     == DeserializeInt4Range(range_blob.val)
        range == d.val
        above_lower ==
            \/ value.val > range.lower
            \/ (value.val = range.lower /\ range.lower_inc)
        below_upper ==
            \/ value.val < range.upper
            \/ (value.val = range.upper /\ range.upper_inc)
    IN  IF ~d.ok THEN Error(d.err)
        ELSE IF IsEmpty(range) THEN Boolean(FALSE)
        ELSE Boolean(above_lower /\ below_upper)

\* A faulty accessor: it refuses a range that is empty.
RangeLowerRowRejectEmpty(range_blob) ==
    LET range == DeserializeInt4Range(range_blob.val)
    IN  IF ~range.ok THEN Error(range.err)
        ELSE IF IsEmpty(range.val) THEN Error("EmptyRange")
        ELSE Integer(range.val.lower)

\* The lambdas of the accessors.
RangeLowerRow(range_blob) ==
    LET range == DeserializeInt4Range(range_blob.val)
    IN  IF ~range.ok THEN Error(range.err) ELSE Integer(range.val.lower)

RangeUpperRow(range_blob) ==
    LET range == DeserializeInt4Range(range_blob.val)
    IN  IF ~range.ok THEN Error(range.err) ELSE Integer(range.val.upper)

RangeIsEmptyRow(range_blob) ==
    LET range == DeserializeInt4Range(range_blob.val)
    IN  IF ~range.ok THEN Error(range.err) ELSE Boolean(IsEmpty(range.val))

RangeLowerIncRow(range_blob) ==
    LET range == DeserializeInt4Range(range_blob.val)
    IN  IF ~range.ok THEN Error(range.err) ELSE Boolean(range.val.lower_inc)

RangeUpperIncRow(range_blob) ==
    LET range == DeserializeInt4Range(range_blob.val)
    IN  IF ~range.ok THEN Error(range.err) ELSE Boolean(range.val.upper_inc)

---------------------------------------------------------------------------
\* NUMRANGE handlers, one row each.

\* The body of the loop of NumRangeConstructor4.
NumRangeConstructor4Row(lower, upper, lower_inc, upper_inc) ==
    IF IsNull(lower) \/ IsNull(upper) \/ IsNull(lower_inc) \/ IsNull(upper_inc)
    THEN NullValue
    ELSE NumRangeBlob(ConstructNumRangeValue(lower.val, upper.val,
                                             lower_inc.val, upper_inc.val))

\* The lambda of NumRangeConstructor.
NumRangeConstructorRow(lower, upper, bounds_blob) ==
    LET bounds_str == bounds_blob.val
    IN  IF bounds_str = <<>>
        THEN NumRangeBlob(ConstructNumRangeValue(lower.val, upper.val, TRUE, FALSE))
        ELSE IF bounds_str = <<"[", ")">>
        THEN NumRangeBlob(ConstructNumRangeValue(lower.val, upper.val, TRUE, FALSE))
        ELSE IF bounds_str = <<"[", "]">>
        THEN NumRangeBlob(ConstructNumRangeValue(lower.val, upper.val, TRUE, TRUE))
        ELSE IF bounds_str = <<"(", "]">>
        THEN NumRangeBlob(ConstructNumRangeValue(lower.val, upper.val, FALSE, TRUE))
        ELSE IF bounds_str = <<"(", ")">>
        THEN NumRangeBlob(ConstructNumRangeValue(lower.val, upper.val, FALSE, FALSE))
        ELSE Error("InvalidBoundsNotation")

\* The lambda of NumRangeConstructor2.
NumRangeConstructor2Row(lower, upper) ==
    NumRangeBlob(ConstructNumRangeValue(lower.val, upper.val, TRUE, FALSE))

\* The body of the loop of NumRangeToVarchar: the results it may give (one,
\* but for a bound that std::to_string may round either way).
NumRangeToVarcharRow(source) ==
    IF IsNull(source)
    THEN {NullValue}
    ELSE LET range == DeserializeNumRange(source.val)
         IN  IF ~range.ok THEN {Error(range.err)}
             ELSE {Varchar(str) : str \in NumRangeTexts(range.val)}

\* The body of the loop of VarcharToNumRangeCast.
VarcharToNumRangeCastRow(source) ==
    IF IsNull(source)
    THEN NullValue
    ELSE LET range == ParseNumRange(source.val)
         IN  IF ~range.ok THEN Error(range.err)
             ELSE NumRangeBlob(SerializeNumRange(range.val))

\* The lambda of NumRangeConstructor1.
NumRangeConstructor1Row(input) ==
    LET range == ParseNumRange(input.val)
    IN  IF ~range.ok THEN Error(range.err)
        ELSE NumRangeBlob(SerializeNumRange(range.val))

\* The lambda of NumRangeOverlaps.
NumRangeOverlapsRow(r1_blob, r2_blob) ==
    LET d1 == DeserializeNumRange(r1_blob.val)
        d2 == DeserializeNumRange(r2_blob.val)
        r1 == d1.val
        r2 == d2.val
        r1_left_of_r2 ==
            \/ r1.upper < r2.lower
            \/ (r1.upper = r2.lower /\ (~r1.upper_inc \/ ~r2.lower_inc))
        r2_left_of_r1 ==
            \/ r2.upper < r1.lower
            \/ (r2.upper = r1.lower /\ (~r2.upper_inc \/ ~r1.lower_inc))
    IN  IF ~d1.ok THEN Error(d1.err)
        ELSE IF ~d2.ok THEN Error(d2.err)
        ELSE IF IsEmptyNum(r1) \/ IsEmptyNum(r2) THEN Boolean(FALSE)
        ELSE Boolean(~(r1_left_of_r2 \/ r2_left_of_r1))

\* The lambda of NumRangeContains.
NumRangeContainsRow(range_blob, value) ==
    LET d     == DeserializeNumRange(range_blob.val)
        range == d.val
        above_lower ==
            \/ value.val > range.lower
            \/ (value.val = range.lower /\ range.lower_inc)
        below_upper ==
            \/ value.val < range.upper
            \/ (value.val = range.upper /\ range.upper_inc)
    IN  IF ~d.ok THEN Error(d.err)
        ELSE IF IsEmptyNum(range) THEN Boolean(FALSE)
        ELSE Boolean(above_lower /\ below_upper)

\* The lambda of NumRangeContainedBy.
NumRangeContainedByRow(value, range_blob) ==
    LET d     == DeserializeNumRange(range_blob.val)
        range == d.val
        above_lower ==
            \/ value.val > range.lower
            \/ (value.val = range.lower /\ range.lower_inc)
        below_upper ==
            \/ value.val < range.upper
            \/ (value.val = range.upper /\ range.upper_inc)
    IN  IF ~d.ok THEN Error(d.err)
        ELSE IF IsEmptyNum(range) THEN Boolean(FALSE)
        ELSE Boolean(above_lower /\ below_upper)

\* The lambdas of the accessors.
NumRangeLowerRow(range_blob) ==
    LET range == DeserializeNumRange(range_blob.val)
    IN  IF ~range.ok THEN Error(range.err) ELSE Double(range.val.lower)

NumRangeUpperRow(range_blob) ==
    LET range == DeserializeNumRange(range_blob.val)
    IN  IF ~range.ok THEN Error(range.err) ELSE Double(range.val.upper)

NumRangeIsEmptyRow(range_blob) ==
    LET range == DeserializeNumRange(range_blob.val)
    IN  IF ~range.ok THEN Error(range.err) ELSE Boolean(IsEmptyNum(range.val))

NumRangeLowerIncRow(range_blob) ==
    LET range == DeserializeNumRange(range_blob.val)
    IN  IF ~range.ok THEN Error(range.err) ELSE Boolean(range.val.lower_inc)

NumRangeUpperIncRow(range_blob) ==
    LET range == DeserializeNumRange(range_blob.val)
    IN  IF ~range.ok THEN Error(range.err) ELSE Boolean(range.val.upper_inc)

---------------------------------------------------------------------------
\* Inputs.

IntVals == (-MaxInt..MaxInt) \cup {INT_MIN, INT_MAX}

Int4Ranges ==
    {Int4Range(l, u, li, ui) : l \in IntVals, u \in IntVals,
                               li \in BOOLEAN, ui \in BOOLEAN}

\* The whole numbers of the NUMRANGE inputs.
NumWhole == {w * Scale : w \in -MaxNum..MaxNum}

\* Half of the last printed digit: 0.0000005.
HalfPrinted == 5 * 10 ^ (FracDigits - PrintDigits - 1)

\* Bounds with more than PrintDigits digits after the point, and one half.
NumFractions == {1, HalfPrinted, Scale \div 2}

NumVals == NumWhole \cup NumFractions

NumRanges ==
    {NumRange(l, u, li, ui) : l \in NumVals, u \in NumVals,
                              li \in BOOLEAN, ui \in BOOLEAN}

\* The values the NUMRANGE predicates are called on.
NumPredVals == NumWhole \cup {Scale \div 2}

NumPredRanges ==
    {NumRange(l, u, li, ui) : l \in NumPredVals, u \in NumPredVals,
                              li \in BOOLEAN, ui \in BOOLEAN}

\* The rows of a batch that are null, by argument position: a vector holds
\* its validity mask apart from its data.
NullMasks == SUBSET (1..4)

\* The value of argument i of a row: null if the mask says so.
Arg(nulls, i, v) == IF i \in nulls THEN NullValue ELSE v

\* Bounds notation tokens: none, the four of the notation, and others.
BoundsTokens ==
    { <<>>, <<"[", ")">>, <<"[", "]">>, <<"(", "]">>, <<"(", ")">>,
      <<")", "[">>, <<"[">>, <<"[", ")", ")">>, <<"[", " ">> }

\* The decimal numeral of a one-digit integer.
SmallNumeral(v) == IF v < 0 THEN <<"-", DigitChar(-v)>> ELSE <<DigitChar(v)>>

IntMaxText == <<"2", "1", "4", "7", "4", "8", "3", "6", "4", "7">>

IntMinText == <<"-", "2", "1", "4", "7", "4", "8", "3", "6", "4", "8">>

\* The texts written between the delimiters of an INT4RANGE literal: the
\* numerals of the bounds, numerals one beyond the int32 range, and texts that
\* are no plain numeral.
IntScalarTexts ==
    {SmallNumeral(v) : v \in -MaxInt..MaxInt}
      \cup {IntMaxText, IntMinText}
      \cup { <<"2", "1", "4", "7", "4", "8", "3", "6", "4", "8">>,
             <<"-", "2", "1", "4", "7", "4", "8", "3", "6", "4", "9">>,
             <<>>, <<" ", "1">>, <<"1", "x">>, <<"+", "1">>, <<"x">>,
             <<"1", ",", "0">> }

\* Every way to write the word "empty" in upper and lower case.
EmptyVariants ==
    {<<e, m, p, t, y>> : e \in {"e", "E"}, m \in {"m", "M"}, p \in {"p", "P"},
                         t \in {"t", "T"}, y \in {"y", "Y"}}

\* Texts close to the word, and texts that break the shape of a literal.
OddTexts ==
    { <<"e", "m", "p", "t">>, <<"e", "m", "p", "t", "y", "y">>,
      <<" ", "e", "m", "p", "t", "y">>, <<"[", "e", "m", "p", "t", "y", ")">>,
      <<"[", "e", ",", "y", ")">>,
      <<>>, <<"[">>, <<"[", ")">>, <<",">>, <<"[", ",">>,
      <<"1", ",", "0", ")">>, <<"[", "1", ",", "0">>, <<"[", "1", " ", "0", ")">>,
      <<"[", "1", "0", ")">> }

Bracketed(texts) ==
    {<<l>> \o a \o <<",">> \o b \o <<u>> :
        l \in {"[", "("}, a \in texts, b \in texts, u \in {"]", ")"}}

Int4Literals == Bracketed(IntScalarTexts) \cup EmptyVariants \cup OddTexts

\* The decimal text of a NUMRANGE bound, all FracDigits digits written.
NumNumeral(n) == DecimalText(n < 0, IF n < 0 THEN -n ELSE n, FracDigits)

NumScalarTexts ==
    {NumNumeral(n) : n \in NumVals}
      \cup { <<"1">>, <<".", "5">>, <<"1", ".">>, <<>>, <<" ", "1">>,
             <<"1", "x">>, <<".">> }

NumLiterals == Bracketed(NumScalarTexts) \cup EmptyVariants \cup OddTexts

\* Blobs that no constructor made: too short, and with bytes after the value.
OddInt4Blobs ==
    { <<>>, <<1, 0, 0>>, <<1, 0, 0, 0, 0, 0, 0, 0>>,
      <<0, 0, 0, 0, 1, 0, 0, 0, 2, 7>> }

OddNumBlobs ==
    { <<>>, <<1, 0, 0, 0, 0, 0, 0, 0, 0>>,
      [i \in 1..16 |-> 0],
      [i \in 1..18 |-> IF i = 17 THEN 3 ELSE 0] }

\* The blobs given to a predicate next to an odd one: the odd ones and the
\* encoding of [0,1].
PairInt4Blobs == OddInt4Blobs \cup {SerializeInt4Range(Int4Range(0, 1, TRUE, TRUE))}

PairNumBlobs == OddNumBlobs \cup {SerializeNumRange(NumRange(0, Scale, TRUE, TRUE))}

---------------------------------------------------------------------------
\* The vector given to a handler that loops over its rows itself.

\* No handler is walking a vector.
NoBatch ==
    [op |-> "none", data |-> <<>>, sel |-> <<>>, i |-> 1, result |-> <<>>,
     invoked |-> {}, status |-> "none", error |-> ""]

\* The handler `op` is entered with `count` rows: `data` holds the values of
\* the argument vectors (ToUnifiedFormat), `sel` is the selection vector
\* that gives, for each row, the position of its values in `data`, `result`
\* is the result vector filled so far, and `invoked` records the rows for
\* which the conversion (construct, parse, serialize, deserialize) was
\* called.
Vector(op, data, sel) ==
    [op |-> op, data |-> data, sel |-> sel, i |-> 1, result |-> <<>>,
     invoked |-> {}, status |-> "running", error |-> ""]

\* for (idx_t i = 0; i < count; i++), while no exception left the handler.
Running(b) == b.status = "running" /\ b.i <= Len(b.sel)

\* The loop has ended and the handler has returned its result vector.
Returned(b) == b.status = "running" /\ b.i > Len(b.sel)

\* A faulty index: the position of the row in the result vector.
SourceIndexFlat(b) == b.i

\* auto idx = source_data.sel->get_index(i)
SourceIndex(b) == b.sel[b.i]

\* FlatVector::SetNull(result, i, true); continue;
SetNull(b) == [b EXCEPT !.result = Append(@, NullValue), !.i = @ + 1]

\* The conversion is called for row i.
Invoke(b) == [b EXCEPT !.invoked = @ \cup {b.i}]

\* FlatVector::GetData<string_t>(result)[i] = ...; then the next row.
SetResult(b, v) == [b EXCEPT !.result = Append(@, v), !.i = @ + 1]

\* An exception leaves the loop and the handler: the query fails.
Throws(b, e) == [b EXCEPT !.status = "failed", !.error = e]

\* The selection vectors of a vector of n rows.
Selections(n) == [1..n -> 1..n]

\* Which arguments of a row of the 4-argument constructor are null.
BatchNullMasks == { {}, {1}, {4} }

\* Text rows: two literals, one without brackets, one with a bound that is
\* no number.
BatchTexts ==
    { <<"[", "0", ",", "1", ")">>, EmptyWord, <<"0", ",", "1">>,
      <<"[", "x", ",", "1", "]">> }

\* Stored rows: a range, the empty range, and a blob that is too short.
BatchInt4Blobs ==
    { SerializeInt4Range(Int4Range(0, 1, TRUE, FALSE)),
      SerializeInt4Range(Int4Range(1, 0, FALSE, FALSE)), <<>> }

BatchNumBlobs ==
    { SerializeNumRange(NumRange(0, Scale, TRUE, FALSE)),
      SerializeNumRange(NumRange(Scale, 0, FALSE, FALSE)), <<>> }

---------------------------------------------------------------------------
\* Calls on several threads.

Threads == 1..NumThreads

\* A thread that is making no call.
Idle ==
    [pc |-> "idle", op |-> "none", args |-> <<>>,
     range |-> Int4Range(0, 0, FALSE, FALSE), out |-> NullValue]

\* A thread in a call of `op`: `range` is the local Int4Range of the call
\* and `pc` the statement the call is at.
Frame(pc, op, args, range, out) ==
    [pc |-> pc, op |-> op, args |-> args, range |-> range, out |-> out]

\* A faulty allocation: every call writes the buffer of the first thread.
ResultOfShared(t) == 1

\* The buffer that StringVector::EmptyString(result, size) gives the call of
\* thread t: one in the result vector of that call.
ResultOf(t) == t

\* memcpy(ptr + at, src, n) into the bytes `data`.
Memcpy(data, at, src) ==
    [i \in 1..Len(data) |->
        IF at < i /\ i <= at + Len(src) THEN src[i - at] ELSE data[i]]

\* The bounds and the literals of the calls made at once.
ThreadBounds == {-1, 1}

ThreadTexts == { <<"[", "0", ",", "1", ")">>, EmptyWord, <<"0", ",", "1">> }

ThreadBlobs ==
    { SerializeInt4Range(Int4Range(0, 1, TRUE, FALSE)),
      SerializeInt4Range(Int4Range(1, 0, FALSE, FALSE)), <<>> }

---------------------------------------------------------------------------
\* The state machine: the calls of one SQL expression, innermost first.

\* A call: the handler, the arguments it was given, its result, and, for an
\* argument that is a stored range, the range value that was stored (`of`).
Call(op, args, of, out) == [op |-> op, args |-> args, of |-> of, out |-> out]

\* The handlers of the two types.  An expression of the model stays within
\* one type: the fixed-point doubles of the model are too narrow to hold the
\* int32 extremes that the text of an INT4RANGE may carry.
Int4Ops ==
    { "Int4RangeConstructor4", "Int4RangeConstructor", "Int4RangeConstructor2",
      "Int4RangeConstructor1", "VarcharToInt4RangeCast", "Int4RangeToVarchar" }

NumOps ==
    { "NumRangeConstructor4", "NumRangeConstructor", "NumRangeConstructor2",
      "NumRangeConstructor1", "VarcharToNumRangeCast", "NumRangeToVarchar" }

\* The values a handler may be given for an argument of the given kind: any
\* fresh value when no call was made yet, and else the result of the last
\* call, if it is of that kind and made by one of the handlers `ops`.
Inputs(kind, ops, fresh) ==
    IF trace = <<>> THEN fresh
    ELSE IF /\ Len(trace) < MaxChain
            /\ trace[Len(trace)].out.kind = kind
            /\ trace[Len(trace)].op \in ops
         THEN {trace[Len(trace)].out}
         ELSE {}

Init ==
    /\ trace = <<>>
    /\ batch = NoBatch
    /\ threads = [t \in Threads |-> Idle]
    /\ buffers = [t \in Threads |-> <<>>]

Int4RangeConstructor4 ==
    /\ trace = <<>>
    /\ \E l \in IntVals, u \in IntVals, li \in BOOLEAN, ui \in BOOLEAN,
          nulls \in NullMasks :
          LET lower     == Arg(nulls, 1, Integer(l))
              upper     == Arg(nulls, 2, Integer(u))
              lower_inc == Arg(nulls, 3, Boolean(li))
              upper_inc == Arg(nulls, 4, Boolean(ui))
          IN  trace' = <<Call("Int4RangeConstructor4",
                              <<lower, upper, lower_inc, upper_inc>>, <<>>,
                              Int4RangeConstructor4Row(lower, upper, lower_inc,
                                                       upper_inc))>>

Int4RangeConstructor ==
    /\ trace = <<>>
    /\ \E lower \in IntVals, upper \in IntVals, bounds \in BoundsTokens :
          trace' = <<Call("Int4RangeConstructor",
                          <<Integer(lower), Integer(upper), Varchar(bounds)>>, <<>>,
                          Int4RangeConstructorRow(Integer(lower), Integer(upper),
                                                  Varchar(bounds)))>>

Int4RangeConstructor2 ==
    /\ trace = <<>>
    /\ \E lower \in IntVals, upper \in IntVals :
          trace' = <<Call("Int4RangeConstructor2",
                          <<Integer(lower), Integer(upper)>>, <<>>,
                          Int4RangeConstructor2Row(Integer(lower), Integer(upper)))>>

Int4RangeConstructor1 ==
    \E input \in Inputs("VARCHAR", Int4Ops, {Varchar(s) : s \in Int4Literals}) :
        trace' = Append(trace, Call("Int4RangeConstructor1", <<input>>, <<>>,
                                    Int4RangeConstructor1Row(input)))

VarcharToInt4RangeCast ==
    \/ \E source \in Inputs("VARCHAR", Int4Ops, {Varchar(s) : s \in Int4Literals}) :
          trace' = Append(trace, Call("VarcharToInt4RangeCast", <<source>>, <<>>,
                                      VarcharToInt4RangeCastRow(source)))
    \/ /\ trace = <<>>
       /\ trace' = <<Call("VarcharToInt4RangeCast", <<NullValue>>, <<>>,
                          VarcharToInt4RangeCastRow(NullValue))>>

Int4RangeToVarchar ==
    \/ \E source \in Inputs("INT4RANGE", Int4Ops,
                            {Int4RangeBlob(b) : b \in OddInt4Blobs}) :
          trace' = Append(trace, Call("Int4RangeToVarchar", <<source>>, <<>>,
                                      Int4RangeToVarcharRow(source)))
    \/ /\ trace = <<>>
       /\ trace' = <<Call("Int4RangeToVarchar", <<NullValue>>, <<>>,
                          Int4RangeToVarcharRow(NullValue))>>
    \/ /\ trace = <<>>
       /\ \E v \in Int4Ranges :
              LET source == Int4RangeBlob(SerializeInt4Range(v))
              IN  trace' = <<Call("Int4RangeToVarchar", <<source>>, <<v>>,
                                  Int4RangeToVarcharRow(source))>>

RangeOverlaps ==
    \/ /\ trace = <<>>
       /\ \E v1 \in Int4Ranges, v2 \in Int4Ranges :
             LET r1 == Int4RangeBlob(SerializeInt4Range(v1))
                 r2 == Int4RangeBlob(SerializeInt4Range(v2))
             IN  trace' = <<Call("RangeOverlaps", <<r1, r2>>, <<v1, v2>>,
                                 RangeOverlapsRow(r1, r2))>>
    \/ /\ trace = <<>>
       /\ \E b1 \in PairInt4Blobs, b2 \in PairInt4Blobs :
              /\ b1 \in OddInt4Blobs \/ b2 \in OddInt4Blobs
              /\ trace' = <<Call("RangeOverlaps",
                                  <<Int4RangeBlob(b1), Int4RangeBlob(b2)>>, <<>>,
                                  RangeOverlapsRow(Int4RangeBlob(b1), Int4RangeBlob(b2)))>>

RangeContains ==
    \/ /\ trace = <<>>
       /\ \E v \in Int4Ranges, value \in IntVals :
             LET range == Int4RangeBlob(SerializeInt4Range(v))
             IN  trace' = <<Call("RangeContains", <<range, Integer(value)>>, <<v>>,
                                 RangeContainsRow(range, Integer(value)))>>
    \/ /\ trace = <<>>
       /\ \E b \in OddInt4Blobs, value \in IntVals :
              trace' = <<Call("RangeContains", <<Int4RangeBlob(b), Integer(value)>>, <<>>,
                              RangeContainsRow(Int4RangeBlob(b), Integer(value)))>>

RangeContainedBy ==
    \/ /\ trace = <<>>
       /\ \E v \in Int4Ranges, value \in IntVals :
             LET range == Int4RangeBlob(SerializeInt4Range(v))
             IN  trace' = <<Call("RangeContainedBy", <<Integer(value), range>>, <<v>>,
                                 RangeContainedByRow(Integer(value), range))>>
    \/ /\ trace = <<>>
       /\ \E b \in OddInt4Blobs, value \in IntVals :
              trace' = <<Call("RangeContainedBy", <<Integer(value), Int4RangeBlob(b)>>, <<>>,
                              RangeContainedByRow(Integer(value), Int4RangeBlob(b)))>>

RangeLower ==
    \E range \in Inputs("INT4RANGE", Int4Ops,
                         {Int4RangeBlob(b) : b \in OddInt4Blobs}) :
        trace' = Append(trace, Call("RangeLower", <<range>>, <<>>,
                                    RangeLowerRow(range)))

RangeUpper ==
    \E range \in Inputs("INT4RANGE", Int4Ops,
                         {Int4RangeBlob(b) : b \in OddInt4Blobs}) :
        trace' = Append(trace, Call("RangeUpper", <<range>>, <<>>,
                                    RangeUpperRow(range)))

RangeIsEmpty ==
    \E range \in Inputs("INT4RANGE", Int4Ops,
                         {Int4RangeBlob(b) : b \in OddInt4Blobs}) :
        trace' = Append(trace, Call("RangeIsEmpty", <<range>>, <<>>,
                                    RangeIsEmptyRow(range)))

RangeLowerInc ==
    \E range \in Inputs("INT4RANGE", Int4Ops,
                         {Int4RangeBlob(b) : b \in OddInt4Blobs}) :
        trace' = Append(trace, Call("RangeLowerInc", <<range>>, <<>>,
                                    RangeLowerIncRow(range)))

RangeUpperInc ==
    \E range \in Inputs("INT4RANGE", Int4Ops,
                         {Int4RangeBlob(b) : b \in OddInt4Blobs}) :
        trace' = Append(trace, Call("RangeUpperInc", <<range>>, <<>>,
                                    RangeUpperIncRow(range)))

NumRangeConstructor4 ==
    /\ trace = <<>>
    /\ \E l \in NumVals, u \in NumVals, li \in BOOLEAN, ui \in BOOLEAN,
          nulls \in NullMasks :
          LET lower     == Arg(nulls, 1, Double(l))
              upper     == Arg(nulls, 2, Double(u))
              lower_inc == Arg(nulls, 3, Boolean(li))
              upper_inc == Arg(nulls, 4, Boolean(ui))
          IN  trace' = <<Call("NumRangeConstructor4",
                              <<lower, upper, lower_inc, upper_inc>>, <<>>,
                              NumRangeConstructor4Row(lower, upper, lower_inc,
                                                      upper_inc))>>

NumRangeConstructor ==
    /\ trace = <<>>
    /\ \E lower \in NumVals, upper \in NumVals, bounds \in BoundsTokens :
          trace' = <<Call("NumRangeConstructor",
                          <<Double(lower), Double(upper), Varchar(bounds)>>, <<>>,
                          NumRangeConstructorRow(Double(lower), Double(upper),
                                                 Varchar(bounds)))>>

NumRangeConstructor2 ==
    /\ trace = <<>>
    /\ \E lower \in NumVals, upper \in NumVals :
          trace' = <<Call("NumRangeConstructor2",
                          <<Double(lower), Double(upper)>>, <<>>,
                          NumRangeConstructor2Row(Double(lower), Double(upper)))>>

NumRangeConstructor1 ==
    \E input \in Inputs("VARCHAR", NumOps, {Varchar(s) : s \in NumLiterals}) :
        trace' = Append(trace, Call("NumRangeConstructor1", <<input>>, <<>>,
                                    NumRangeConstructor1Row(input)))

VarcharToNumRangeCast ==
    \/ \E source \in Inputs("VARCHAR", NumOps, {Varchar(s) : s \in NumLiterals}) :
          trace' = Append(trace, Call("VarcharToNumRangeCast", <<source>>, <<>>,
                                      VarcharToNumRangeCastRow(source)))
    \/ /\ trace = <<>>
       /\ trace' = <<Call("VarcharToNumRangeCast", <<NullValue>>, <<>>,
                          VarcharToNumRangeCastRow(NullValue))>>

NumRangeToVarchar ==
    \/ \E source \in Inputs("NUMRANGE", NumOps,
                            {NumRangeBlob(b) : b \in OddNumBlobs}) :
          \E out \in NumRangeToVarcharRow(source) :
              trace' = Append(trace, Call("NumRangeToVarchar", <<source>>, <<>>, out))
    \/ /\ trace = <<>>
       /\ \E out \in NumRangeToVarcharRow(NullValue) :
              trace' = <<Call("NumRangeToVarchar", <<NullValue>>, <<>>, out)>>
    \/ /\ trace = <<>>
       /\ \E v \in NumRanges :
              LET source == NumRangeBlob(SerializeNumRange(v))
              IN  \E out \in NumRangeToVarcharRow(source) :
                      trace' = <<Call("NumRangeToVarchar", <<source>>, <<v>>, out)>>

NumRangeOverlaps ==
    \/ /\ trace = <<>>
       /\ \E v1 \in NumPredRanges, v2 \in NumPredRanges :
             LET r1 == NumRangeBlob(SerializeNumRange(v1))
                 r2 == NumRangeBlob(SerializeNumRange(v2))
             IN  trace' = <<Call("NumRangeOverlaps", <<r1, r2>>, <<v1, v2>>,
                                 NumRangeOverlapsRow(r1, r2))>>
    \/ /\ trace = <<>>
       /\ \E b1 \in PairNumBlobs, b2 \in PairNumBlobs :
              /\ b1 \in OddNumBlobs \/ b2 \in OddNumBlobs
              /\ trace' = <<Call("NumRangeOverlaps",
                                  <<NumRangeBlob(b1), NumRangeBlob(b2)>>, <<>>,
                                  NumRangeOverlapsRow(NumRangeBlob(b1), NumRangeBlob(b2)))>>

NumRangeContains ==
    \/ /\ trace = <<>>
       /\ \E v \in NumPredRanges, value \in NumVals :
             LET range == NumRangeBlob(SerializeNumRange(v))
             IN  trace' = <<Call("NumRangeContains", <<range, Double(value)>>, <<v>>,
                                 NumRangeContainsRow(range, Double(value)))>>
    \/ /\ trace = <<>>
       /\ \E b \in OddNumBlobs, value \in NumVals :
              trace' = <<Call("NumRangeContains", <<NumRangeBlob(b), Double(value)>>, <<>>,
                              NumRangeContainsRow(NumRangeBlob(b), Double(value)))>>

NumRangeContainedBy ==
    \/ /\ trace = <<>>
       /\ \E v \in NumPredRanges, value \in NumVals :
             LET range == NumRangeBlob(SerializeNumRange(v))
             IN  trace' = <<Call("NumRangeContainedBy", <<Double(value), range>>, <<v>>,
                                 NumRangeContainedByRow(Double(value), range))>>
    \/ /\ trace = <<>>
       /\ \E b \in OddNumBlobs, value \in NumVals :
              trace' = <<Call("NumRangeContainedBy", <<Double(value), NumRangeBlob(b)>>, <<>>,
                              NumRangeContainedByRow(Double(value), NumRangeBlob(b)))>>

NumRangeLower ==
    \E range \in Inputs("NUMRANGE", NumOps,
                         {NumRangeBlob(b) : b \in OddNumBlobs}) :
        trace' = Append(trace, Call("NumRangeLower", <<range>>, <<>>,
                                    NumRangeLowerRow(range)))

NumRangeUpper ==
    \E range \in Inputs("NUMRANGE", NumOps,
                         {NumRangeBlob(b) : b \in OddNumBlobs}) :
        trace' = Append(trace, Call("NumRangeUpper", <<range>>, <<>>,
                                    NumRangeUpperRow(range)))

NumRangeIsEmpty ==
    \E range \in Inputs("NUMRANGE", NumOps,
                         {NumRangeBlob(b) : b \in OddNumBlobs}) :
        trace' = Append(trace, Call("NumRangeIsEmpty", <<range>>, <<>>,
                                    NumRangeIsEmptyRow(range)))

NumRangeLowerInc ==
    \E range \in Inputs("NUMRANGE", NumOps,
                         {NumRangeBlob(b) : b \in OddNumBlobs}) :
        trace' = Append(trace, Call("NumRangeLowerInc", <<range>>, <<>>,
                                    NumRangeLowerIncRow(range)))

NumRangeUpperInc ==
    \E range \in Inputs("NUMRANGE", NumOps,
                         {NumRangeBlob(b) : b \in OddNumBlobs}) :
        trace' = Append(trace, Call("NumRangeUpperInc", <<range>>, <<>>,
                                    NumRangeUpperIncRow(range)))

Next ==
    \/ Int4RangeConstructor4 /\ UNCHANGED <<batch, threads, buffers>>
    \/ Int4RangeConstructor /\ UNCHANGED <<batch, threads, buffers>>
    \/ Int4RangeConstructor2 /\ UNCHANGED <<batch, threads, buffers>>
    \/ Int4RangeConstructor1 /\ UNCHANGED <<batch, threads, buffers>>
    \/ VarcharToInt4RangeCast /\ UNCHANGED <<batch, threads, buffers>>
    \/ Int4RangeToVarchar /\ UNCHANGED <<batch, threads, buffers>>
    \/ RangeOverlaps /\ UNCHANGED <<batch, threads, buffers>>
    \/ RangeContains /\ UNCHANGED <<batch, threads, buffers>>
    \/ RangeContainedBy /\ UNCHANGED <<batch, threads, buffers>>
    \/ RangeLower /\ UNCHANGED <<batch, threads, buffers>>
    \/ RangeUpper /\ UNCHANGED <<batch, threads, buffers>>
    \/ RangeIsEmpty /\ UNCHANGED <<batch, threads, buffers>>
    \/ RangeLowerInc /\ UNCHANGED <<batch, threads, buffers>>
    \/ RangeUpperInc /\ UNCHANGED <<batch, threads, buffers>>
    \/ NumRangeConstructor4 /\ UNCHANGED <<batch, threads, buffers>>
    \/ NumRangeConstructor /\ UNCHANGED <<batch, threads, buffers>>
    \/ NumRangeConstructor2 /\ UNCHANGED <<batch, threads, buffers>>
    \/ NumRangeConstructor1 /\ UNCHANGED <<batch, threads, buffers>>
    \/ VarcharToNumRangeCast /\ UNCHANGED <<batch, threads, buffers>>
    \/ NumRangeToVarchar /\ UNCHANGED <<batch, threads, buffers>>
    \/ NumRangeOverlaps /\ UNCHANGED <<batch, threads, buffers>>
    \/ NumRangeContains /\ UNCHANGED <<batch, threads, buffers>>
    \/ NumRangeContainedBy /\ UNCHANGED <<batch, threads, buffers>>
    \/ NumRangeLower /\ UNCHANGED <<batch, threads, buffers>>
    \/ NumRangeUpper /\ UNCHANGED <<batch, threads, buffers>>
    \/ NumRangeIsEmpty /\ UNCHANGED <<batch, threads, buffers>>
    \/ NumRangeLowerInc /\ UNCHANGED <<batch, threads, buffers>>
    \/ NumRangeUpperInc /\ UNCHANGED <<batch, threads, buffers>>

Spec == Init /\ [][Next]_vars

---------------------------------------------------------------------------
\* The loops over the rows of a vector.

\* Int4RangeConstructor4 is entered with its four argument vectors.
Int4RangeConstructor4Enter ==
    /\ batch = NoBatch
    /\ \E n \in 1..MaxRows :
       \E li \in [1..n -> BOOLEAN], ui \in [1..n -> BOOLEAN],
          nulls \in [1..n -> BatchNullMasks], sel \in Selections(n) :
          batch' = Vector("Int4RangeConstructor4",
                          [k \in 1..n |-> << Arg(nulls[k], 1, Integer(0)),
                                             Arg(nulls[k], 2, Integer(1)),
                                             Arg(nulls[k], 3, Boolean(li[k])),
                                             Arg(nulls[k], 4, Boolean(ui[k])) >>],
                          sel)
    /\ UNCHANGED <<trace, threads, buffers>>

\* One turn of the loop of Int4RangeConstructor4.
Int4RangeConstructor4Loop ==
    /\ batch.op = "Int4RangeConstructor4"
    /\ Running(batch)
    /\ LET row == batch.data[SourceIndex(batch)]
       IN  IF \E a \in 1..4 : IsNull(row[a])
           THEN batch' = SetNull(batch)
           ELSE batch' = SetResult(Invoke(batch),
                             Int4RangeBlob(ConstructInt4RangeValue(
                                 row[1].val, row[2].val, row[3].val, row[4].val)))
    /\ UNCHANGED <<trace, threads, buffers>>

\* VarcharToInt4RangeCast is entered with its source vector.
VarcharToInt4RangeCastEnter ==
    /\ batch = NoBatch
    /\ \E n \in 1..MaxRows :
       \E text \in [1..n -> BatchTexts], null \in [1..n -> BOOLEAN],
          sel \in Selections(n) :
          batch' = Vector("VarcharToInt4RangeCast",
                          [k \in 1..n |-> << IF null[k] THEN NullValue
                                             ELSE Varchar(text[k]) >>],
                          sel)
    /\ UNCHANGED <<trace, threads, buffers>>

\* One turn of the loop of VarcharToInt4RangeCast.
VarcharToInt4RangeCastLoop ==
    /\ batch.op = "VarcharToInt4RangeCast"
    /\ Running(batch)
    /\ LET source == batch.data[SourceIndex(batch)][1]
       IN  IF IsNull(source)
           THEN batch' = SetNull(batch)
           ELSE LET range == ParseInt4Range(source.val)
                IN  IF ~range.ok
                    THEN batch' = Throws(Invoke(batch), range.err)
                    ELSE batch' = SetResult(Invoke(batch),
                             Int4RangeBlob(SerializeInt4Range(range.val)))
    /\ UNCHANGED <<trace, threads, buffers>>

\* Int4RangeToVarchar is entered with its source vector.
Int4RangeToVarcharEnter ==
    /\ batch = NoBatch
    /\ \E n \in 1..MaxRows :
       \E blob \in [1..n -> BatchInt4Blobs], null \in [1..n -> BOOLEAN],
          sel \in Selections(n) :
          batch' = Vector("Int4RangeToVarchar",
                          [k \in 1..n |-> << IF null[k] THEN NullValue
                                             ELSE Int4RangeBlob(blob[k]) >>],
                          sel)
    /\ UNCHANGED <<trace, threads, buffers>>

\* One turn of the loop of Int4RangeToVarchar.
Int4RangeToVarcharLoop ==
    /\ batch.op = "Int4RangeToVarchar"
    /\ Running(batch)
    /\ LET source == batch.data[SourceIndex(batch)][1]
       IN  IF IsNull(source)
           THEN batch' = SetNull(batch)
           ELSE LET range == DeserializeInt4Range(source.val)
                IN  IF ~range.ok
                    THEN batch' = Throws(Invoke(batch), range.err)
                    ELSE batch' = SetResult(Invoke(batch),
                                            Varchar(Int4RangeText(range.val)))
    /\ UNCHANGED <<trace, threads, buffers>>

\* NumRangeConstructor4 is entered with its four argument vectors.
NumRangeConstructor4Enter ==
    /\ batch = NoBatch
    /\ \E n \in 1..MaxRows :
       \E li \in [1..n -> BOOLEAN], ui \in [1..n -> BOOLEAN],
          nulls \in [1..n -> BatchNullMasks], sel \in Selections(n) :
          batch' = Vector("NumRangeConstructor4",
                          [k \in 1..n |-> << Arg(nulls[k], 1, Double(0)),
                                             Arg(nulls[k], 2, Double(Scale)),
                                             Arg(nulls[k], 3, Boolean(li[k])),
                                             Arg(nulls[k], 4, Boolean(ui[k])) >>],
                          sel)
    /\ UNCHANGED <<trace, threads, buffers>>

\* One turn of the loop of NumRangeConstructor4.
NumRangeConstructor4Loop ==
    /\ batch.op = "NumRangeConstructor4"
    /\ Running(batch)
    /\ LET row == batch.data[SourceIndex(batch)]
       IN  IF \E a \in 1..4 : IsNull(row[a])
           THEN batch' = SetNull(batch)
           ELSE batch' = SetResult(Invoke(batch),
                             NumRangeBlob(ConstructNumRangeValue(
                                 row[1].val, row[2].val, row[3].val, row[4].val)))
    /\ UNCHANGED <<trace, threads, buffers>>

\* VarcharToNumRangeCast is entered with its source vector.
VarcharToNumRangeCastEnter ==
    /\ batch = NoBatch
    /\ \E n \in 1..MaxRows :
       \E text \in [1..n -> BatchTexts], null \in [1..n -> BOOLEAN],
          sel \in Selections(n) :
          batch' = Vector("VarcharToNumRangeCast",
                          [k \in 1..n |-> << IF null[k] THEN NullValue
                                             ELSE Varchar(text[k]) >>],
                          sel)
    /\ UNCHANGED <<trace, threads, buffers>>

\* One turn of the loop of VarcharToNumRangeCast.
VarcharToNumRangeCastLoop ==
    /\ batch.op = "VarcharToNumRangeCast"
    /\ Running(batch)
    /\ LET source == batch.data[SourceIndex(batch)][1]
       IN  IF IsNull(source)
           THEN batch' = SetNull(batch)
           ELSE LET range == ParseNumRange(source.val)
                IN  IF ~range.ok
                    THEN batch' = Throws(Invoke(batch), range.err)
                    ELSE batch' = SetResult(Invoke(batch),
                             NumRangeBlob(SerializeNumRange(range.val)))
    /\ UNCHANGED <<trace, threads, buffers>>

\* NumRangeToVarchar is entered with its source vector.
NumRangeToVarcharEnter ==
    /\ batch = NoBatch
    /\ \E n \in 1..MaxRows :
       \E blob \in [1..n -> BatchNumBlobs], null \in [1..n -> BOOLEAN],
          sel \in Selections(n) :
          batch' = Vector("NumRangeToVarchar",
                          [k \in 1..n |-> << IF null[k] THEN NullValue
                                             ELSE NumRangeBlob(blob[k]) >>],
                          sel)
    /\ UNCHANGED <<trace, threads, buffers>>

\* One turn of the loop of NumRangeToVarchar.
NumRangeToVarcharLoop ==
    /\ batch.op = "NumRangeToVarchar"
    /\ Running(batch)
    /\ LET source == batch.data[SourceIndex(batch)][1]
       IN  IF IsNull(source)
           THEN batch' = SetNull(batch)
           ELSE LET range == DeserializeNumRange(source.val)
                IN  IF ~range.ok
                    THEN batch' = Throws(Invoke(batch), range.err)
                    ELSE \E str \in NumRangeTexts(range.val) :
                            batch' = SetResult(Invoke(batch), Varchar(str))
    /\ UNCHANGED <<trace, threads, buffers>>

NextBatch ==
    \/ Int4RangeConstructor4Enter
    \/ Int4RangeConstructor4Loop
    \/ VarcharToInt4RangeCastEnter
    \/ VarcharToInt4RangeCastLoop
    \/ Int4RangeToVarcharEnter
    \/ Int4RangeToVarcharLoop
    \/ NumRangeConstructor4Enter
    \/ NumRangeConstructor4Loop
    \/ VarcharToNumRangeCastEnter
    \/ VarcharToNumRangeCastLoop
    \/ NumRangeToVarcharEnter
    \/ NumRangeToVarcharLoop

SpecBatch == Init /\ [][NextBatch]_vars

---------------------------------------------------------------------------
\* Calls made at once.  A call reads its arguments and its local Int4Range
\* in one step; each write to a result buffer is a step of its own.

\* A thread enters Int4RangeConstructor4 on a row without nulls.
CallInt4RangeConstructor4 ==
    /\ \E t \in Threads, l \in ThreadBounds, li \in BOOLEAN :
          /\ threads[t].pc = "idle"
          /\ threads' = [threads EXCEPT
                 ![t] = Frame("EmptyString", "Int4RangeConstructor4",
                              <<Integer(l), Integer(0), Boolean(li), Boolean(TRUE)>>,
                              Int4Range(l, 0, li, TRUE), NullValue)]
    /\ UNCHANGED <<trace, batch, buffers>>

\* A thread enters VarcharToInt4RangeCast and parses its text.
CallVarcharToInt4RangeCast ==
    /\ \E t \in Threads, s \in ThreadTexts :
          /\ threads[t].pc = "idle"
          /\ LET range == ParseInt4Range(s)
             IN  threads' = [threads EXCEPT
                     ![t] = IF range.ok
                            THEN Frame("EmptyString", "VarcharToInt4RangeCast",
                                       <<Varchar(s)>>, range.val, NullValue)
                            ELSE Frame("done", "VarcharToInt4RangeCast",
                                       <<Varchar(s)>>, Idle.range,
                                       Error(range.err))]
    /\ UNCHANGED <<trace, batch, buffers>>

\* A thread makes a call of Int4RangeToVarchar.
CallInt4RangeToVarchar ==
    /\ \E t \in Threads, blob \in ThreadBlobs :
          /\ threads[t].pc = "idle"
          /\ threads' = [threads EXCEPT
                 ![t] = Frame("done", "Int4RangeToVarchar",
                              <<Int4RangeBlob(blob)>>, Idle.range,
                              Int4RangeToVarcharRow(Int4RangeBlob(blob)))]
    /\ UNCHANGED <<trace, batch, buffers>>

\* A thread makes a call of RangeOverlaps.
CallRangeOverlaps ==
    /\ \E t \in Threads, r1 \in ThreadBlobs, r2 \in ThreadBlobs :
          /\ threads[t].pc = "idle"
          /\ threads' = [threads EXCEPT
                 ![t] = Frame("done", "RangeOverlaps",
                              <<Int4RangeBlob(r1), Int4RangeBlob(r2)>>, Idle.range,
                              RangeOverlapsRow(Int4RangeBlob(r1), Int4RangeBlob(r2)))]
    /\ UNCHANGED <<trace, batch, buffers>>

\* A thread makes a call of RangeContains.
CallRangeContains ==
    /\ \E t \in Threads, blob \in ThreadBlobs, v \in ThreadBounds :
          /\ threads[t].pc = "idle"
          /\ threads' = [threads EXCEPT
                 ![t] = Frame("done", "RangeContains",
                              <<Int4RangeBlob(blob), Integer(v)>>, Idle.range,
                              RangeContainsRow(Int4RangeBlob(blob), Integer(v)))]
    /\ UNCHANGED <<trace, batch, buffers>>

\* A thread makes a call of RangeLower.
CallRangeLower ==
    /\ \E t \in Threads, blob \in ThreadBlobs :
          /\ threads[t].pc = "idle"
          /\ threads' = [threads EXCEPT
                 ![t] = Frame("done", "RangeLower",
                              <<Int4RangeBlob(blob)>>, Idle.range,
                              RangeLowerRow(Int4RangeBlob(blob)))]
    /\ UNCHANGED <<trace, batch, buffers>>

\* auto data = StringVector::EmptyString(result, size)
EmptyString ==
    /\ \E t \in Threads :
          /\ threads[t].pc = "EmptyString"
          /\ buffers' = [buffers EXCEPT
                 ![ResultOf(t)] = [i \in 1..(SizeofInt32 * 2 + 1) |-> 0]]
          /\ threads' = [threads EXCEPT ![t].pc = "lower"]
    /\ UNCHANGED <<trace, batch>>

\* memcpy(ptr, &range.lower, sizeof(int32_t))
CopyLower ==
    /\ \E t \in Threads :
          /\ threads[t].pc = "lower"
          /\ buffers' = [buffers EXCEPT
                 ![ResultOf(t)] = Memcpy(@, 0, Int32Bytes(threads[t].range.lower))]
          /\ threads' = [threads EXCEPT ![t].pc = "upper"]
    /\ UNCHANGED <<trace, batch>>

\* memcpy(ptr + sizeof(int32_t), &range.upper, sizeof(int32_t))
CopyUpper ==
    /\ \E t \in Threads :
          /\ threads[t].pc = "upper"
          /\ buffers' = [buffers EXCEPT
                 ![ResultOf(t)] = Memcpy(@, SizeofInt32,
                                         Int32Bytes(threads[t].range.upper))]
          /\ threads' = [threads EXCEPT ![t].pc = "bounds"]
    /\ UNCHANGED <<trace, batch>>

\* memcpy(ptr + sizeof(int32_t) * 2, &bounds, sizeof(uint8_t))
CopyBounds ==
    /\ \E t \in Threads :
          /\ threads[t].pc = "bounds"
          /\ buffers' = [buffers EXCEPT
                 ![ResultOf(t)] = Memcpy(@, SizeofInt32 * 2,
                                         <<PackBounds(threads[t].range.lower_inc,
                                                      threads[t].range.upper_inc)>>)]
          /\ threads' = [threads EXCEPT ![t].pc = "return"]
    /\ UNCHANGED <<trace, batch>>

\* return data: the call hands its buffer to the result vector.
ReturnData ==
    /\ \E t \in Threads :
          /\ threads[t].pc = "return"
          /\ threads' = [threads EXCEPT
                 ![t].pc = "done",
                 ![t].out = Int4RangeBlob(buffers[ResultOf(t)])]
    /\ UNCHANGED <<trace, batch, buffers>>

NextThreads ==
    \/ CallInt4RangeConstructor4
    \/ CallVarcharToInt4RangeCast
    \/ CallInt4RangeToVarchar
    \/ CallRangeOverlaps
    \/ CallRangeContains
    \/ CallRangeLower
    \/ EmptyString
    \/ CopyLower
    \/ CopyUpper
    \/ CopyBounds
    \/ ReturnData

SpecThreads == Init /\ [][NextThreads]_vars

---------------------------------------------------------------------------
\* Properties.

\* The calls made so far, by position.
Calls == 1..Len(trace)

\* The range value a four-argument constructor call was asked to build.
Built(c) == [lower |-> c.args[1].val, upper |-> c.args[2].val,
             lower_inc |-> c.args[3].val, upper_inc |-> c.args[4].val]

\* A four-argument constructor call that built a range (no argument null).
BuiltInt4(c) == c.op = "Int4RangeConstructor4" /\ c.out.kind = "INT4RANGE"

BuiltNum(c) == c.op = "NumRangeConstructor4" /\ c.out.kind = "NUMRANGE"

\* Emptiness as the data model defines it.
EmptyDef(r) ==
    \/ r.lower > r.upper
    \/ (r.lower = r.upper /\ ~(r.lower_inc /\ r.upper_inc))

\* C1: deserialize(serialize(v)) returns the four fields of v unchanged, for
\* every range value v, empty and inverted ones included: whatever the
\* four-argument constructor serialized, the decoder and each accessor read
\* back exactly.
C1_SerializeRoundTrip ==
    \A i \in Calls :
        LET c == trace[i]
        IN  /\ BuiltInt4(c) =>
                /\ DeserializeInt4Range(c.out.val) = Ok(Built(c))
                /\ i < Len(trace) =>
                    /\ trace[i + 1].op = "RangeLower"
                         => trace[i + 1].out = Integer(Built(c).lower)
                    /\ trace[i + 1].op = "RangeUpper"
                         => trace[i + 1].out = Integer(Built(c).upper)
                    /\ trace[i + 1].op = "RangeLowerInc"
                         => trace[i + 1].out = Boolean(Built(c).lower_inc)
                    /\ trace[i + 1].op = "RangeUpperInc"
                         => trace[i + 1].out = Boolean(Built(c).upper_inc)
            /\ BuiltNum(c) =>
                /\ DeserializeNumRange(c.out.val) = Ok(Built(c))
                /\ i < Len(trace) =>
                    /\ trace[i + 1].op = "NumRangeLower"
                         => trace[i + 1].out = Double(Built(c).lower)
                    /\ trace[i + 1].op = "NumRangeUpper"
                         => trace[i + 1].out = Double(Built(c).upper)
                    /\ trace[i + 1].op = "NumRangeLowerInc"
                         => trace[i + 1].out = Boolean(Built(c).lower_inc)
                    /\ trace[i + 1].op = "NumRangeUpperInc"
                         => trace[i + 1].out = Boolean(Built(c).upper_inc)

\* An inverted range with the flags '[)' was serialized, and its lower bound
\* read back.
C1_Witness ==
    /\ Len(trace) = 2
    /\ BuiltInt4(trace[1])
    /\ Built(trace[1]) = Int4Range(INT_MAX, INT_MIN, TRUE, FALSE)
    /\ trace[2].op = "RangeLower"
    /\ trace[2].out = Integer(INT_MAX)

\* C2: serialize produces exactly 2*sizeof(T)+1 bytes (9 for INT4RANGE, 17
\* for NUMRANGE): the raw lower bound at offset 0, the raw upper bound at
\* offset sizeof(T), and a last byte 2*lower_inc + upper_inc, which is in
\* 0..3.
C2_FixedLayout ==
    \A i \in Calls :
        LET c == trace[i]
            b == c.out.val
        IN  /\ c.out.kind = "INT4RANGE" => Len(b) = 9 /\ b[9] \in 0..3
            /\ c.out.kind = "NUMRANGE" => Len(b) = 17 /\ b[17] \in 0..3
            /\ BuiltInt4(c) =>
                /\ SubSeq(b, 1, 4) = Int32Bytes(Built(c).lower)
                /\ SubSeq(b, 5, 8) = Int32Bytes(Built(c).upper)
                /\ b[9] = 2 * (IF Built(c).lower_inc THEN 1 ELSE 0)
                            + (IF Built(c).upper_inc THEN 1 ELSE 0)
            /\ BuiltNum(c) =>
                /\ SubSeq(b, 1, 8) = DoubleBytes(Built(c).lower)
                /\ SubSeq(b, 9, 16) = DoubleBytes(Built(c).upper)
                /\ b[17] = 2 * (IF Built(c).lower_inc THEN 1 ELSE 0)
                             + (IF Built(c).upper_inc THEN 1 ELSE 0)

\* The range [-1,1) was serialized: nine bytes, the last one 2.
C2_Witness ==
    /\ Len(trace) = 1
    /\ BuiltInt4(trace[1])
    /\ Built(trace[1]) = Int4Range(-1, 1, TRUE, FALSE)
    /\ trace[1].out.val = <<255, 255, 255, 255, 1, 0, 0, 0, 2>>

\* C3: is_empty(r) is true exactly when lower > upper, or lower = upper and
\* not both bounds are inclusive: with equal bounds only '[]' is non-empty,
\* and lower < upper is non-empty whatever the flags.
C3_IsEmpty ==
    \A i \in Calls :
        i < Len(trace) =>
            LET c == trace[i]
                n == trace[i + 1]
                r == Built(c)
            IN  /\ (BuiltInt4(c) /\ n.op = "RangeIsEmpty") =>
                    /\ n.out = Boolean(EmptyDef(r))
                    /\ (r.lower = r.upper) =>
                          (n.out = Boolean(FALSE) <=> (r.lower_inc /\ r.upper_inc))
                    /\ (r.lower < r.upper) => n.out = Boolean(FALSE)
                /\ (BuiltNum(c) /\ n.op = "NumRangeIsEmpty") =>
                    /\ n.out = Boolean(EmptyDef(r))
                    /\ (r.lower = r.upper) =>
                          (n.out = Boolean(FALSE) <=> (r.lower_inc /\ r.upper_inc))
                    /\ (r.lower < r.upper) => n.out = Boolean(FALSE)

\* is_empty was asked of the one-point range [1,1] and answered false.
C3_Witness ==
    /\ Len(trace) = 2
    /\ BuiltInt4(trace[1])
    /\ Built(trace[1]) = Int4Range(1, 1, TRUE, TRUE)
    /\ trace[2].op = "RangeIsEmpty"
    /\ trace[2].out = Boolean(FALSE)

\* r1 lies entirely to the left of r2.
LeftOf(r1, r2) ==
    \/ r1.upper < r2.lower
    \/ (r1.upper = r2.lower /\ (~r1.upper_inc \/ ~r2.lower_inc))

\* C4: overlaps(r1, r2) is false if either range is empty, and otherwise is
\* NOT (r1 entirely left of r2 OR r2 entirely left of r1).
C4_Overlaps ==
    \A i \in Calls :
        LET c == trace[i]
        IN  (c.op \in {"RangeOverlaps", "NumRangeOverlaps"} /\ Len(c.of) = 2) =>
                c.out = Boolean(IF EmptyDef(c.of[1]) \/ EmptyDef(c.of[2])
                                THEN FALSE
                                ELSE ~(LeftOf(c.of[1], c.of[2])
                                         \/ LeftOf(c.of[2], c.of[1])))

\* overlaps was asked of [-1,0] and [0,1), which share the point 0, and
\* answered true.
C4_Witness ==
    /\ Len(trace) = 1
    /\ trace[1].op = "RangeOverlaps"
    /\ trace[1].of = <<Int4Range(-1, 0, TRUE, TRUE), Int4Range(0, 1, TRUE, FALSE)>>
    /\ trace[1].out = Boolean(TRUE)

\* Membership of a scalar in a range, as the predicate engine defines it.
Member(r, v) ==
    /\ ~EmptyDef(r)
    /\ (v > r.lower \/ (v = r.lower /\ r.lower_inc))
    /\ (v < r.upper \/ (v = r.upper /\ r.upper_inc))

C6_EmptyNeverOverlapsOrContains ==
    \A i \in Calls :
        LET c == trace[i]
        IN  /\ ( /\ c.op \in {"RangeOverlaps", "NumRangeOverlaps"}
                 /\ Len(c.of) = 2
                 /\ (EmptyDef(c.of[1]) \/ EmptyDef(c.of[2])) )
                  => c.out = Boolean(FALSE)
            /\ ( /\ c.op \in {"RangeContains", "NumRangeContains",
                              "RangeContainedBy", "NumRangeContainedBy"}
                 /\ Len(c.of) = 1
                 /\ EmptyDef(c.of[1]) )
                  => c.out = Boolean(FALSE)

\* overlaps was asked of the whole int32 range and the canonical empty value
\* (1,0), and answered false.
C6_Witness ==
    /\ Len(trace) = 1
    /\ trace[1].op = "RangeOverlaps"
    /\ trace[1].of = <<Int4Range(INT_MIN, INT_MAX, TRUE, TRUE),
                       Int4Range(1, 0, FALSE, FALSE)>>
    /\ trace[1].out = Boolean(FALSE)

\* A call that parsed a text into a range (a cast or the one-argument
\* constructor), of each type.
FromTextInt4(c) ==
    /\ c.op \in {"VarcharToInt4RangeCast", "Int4RangeConstructor1"}
    /\ c.args[1].kind = "VARCHAR"

FromTextNum(c) ==
    /\ c.op \in {"VarcharToNumRangeCast", "NumRangeConstructor1"}
    /\ c.args[1].kind = "VARCHAR"

\* The range r2 is semantically the range r1: both empty, or the same bounds
\* and flags.
SameRange(r1, r2) ==
    /\ EmptyDef(r1) = EmptyDef(r2)
    /\ ~EmptyDef(r1) => r2 = r1

\* C7: integer text round trip: for every literal s that from_text accepts,
\* the text to_text(from_text(s)) is a valid literal that denotes the same
\* range as s (the same emptiness and, when non-empty, the same bounds and
\* flags), and every case variant of the word empty comes back as exactly
\* "empty".
C7_Int4TextRoundTrip ==
    \A i \in Calls :
        (/\ i < Len(trace)
         /\ FromTextInt4(trace[i])
         /\ trace[i].out.kind = "INT4RANGE"
         /\ trace[i + 1].op = "Int4RangeToVarchar")
        => LET s  == trace[i].args[1].val
               t  == trace[i + 1].out
               r1 == ParseInt4Range(s).val
               p2 == ParseInt4Range(t.val)
           IN  /\ t.kind = "VARCHAR"
               /\ p2.ok
               /\ SameRange(r1, p2.val)
               /\ s \in EmptyVariants => t.val = EmptyWord

\* The literal "[-1,1x]" was parsed and the result written as "[-1,1]".
C7_Witness ==
    /\ Len(trace) = 2
    /\ trace[1].op = "VarcharToInt4RangeCast"
    /\ trace[1].args[1] = Varchar(<<"[", "-", "1", ",", "1", "x", "]">>)
    /\ trace[2].op = "Int4RangeToVarchar"
    /\ trace[2].out = Varchar(<<"[", "-", "1", ",", "1", "]">>)

\* The texts to_text(from_text(s)) of a NUMRANGE literal s denote the range
\* of s.
NumTextRoundTrip(i) ==
    LET s  == trace[i].args[1].val
        t  == trace[i + 1].out
        r1 == ParseNumRange(s).val
        p2 == ParseNumRange(t.val)
    IN  /\ t.kind = "VARCHAR"
        /\ p2.ok
        /\ SameRange(r1, p2.val)

\* A bound that needs no more than PrintDigits digits after the point.
SixDigits(n) == n % (10 ^ (FracDigits - PrintDigits)) = 0

\* C8 as claimed: floating text round trip: for every valid NUMRANGE literal
\* s, bounds with more than six fractional digits included, the six-digit
\* text to_text(from_text(s)) denotes the same range as s.
C8_NumTextRoundTrip ==
    \A i \in Calls :
        (/\ i < Len(trace)
         /\ FromTextNum(trace[i])
         /\ trace[i].out.kind = "NUMRANGE"
         /\ trace[i + 1].op = "NumRangeToVarchar")
        => NumTextRoundTrip(i)

\* C8 as amended: floating text round trip: for every valid NUMRANGE literal
\* s whose bounds need at most six digits after the decimal point, the
\* six-digit text to_text(from_text(s)) denotes the same range as s.
C8_NumTextRoundTripSixDigits ==
    \A i \in Calls :
        (/\ i < Len(trace)
         /\ FromTextNum(trace[i])
         /\ trace[i].out.kind = "NUMRANGE"
         /\ trace[i + 1].op = "NumRangeToVarchar"
         /\ SixDigits(ParseNumRange(trace[i].args[1].val).val.lower)
         /\ SixDigits(ParseNumRange(trace[i].args[1].val).val.upper))
        => NumTextRoundTrip(i)

\* The literal "[-1.0000000,.5)" was parsed and the result written as
\* "[-1.000000,0.500000)".
C8_Witness ==
    /\ Len(trace) = 2
    /\ trace[1].op = "VarcharToNumRangeCast"
    /\ trace[1].args[1].kind = "VARCHAR"
    /\ trace[1].args[1].val = <<"[">> \o NumNumeral(-Scale) \o <<",", ".", "5", ")">>
    /\ trace[2].op = "NumRangeToVarchar"
    /\ trace[2].out = Varchar(<<"[", "-", "1", ".", "0", "0", "0", "0", "0", "0", ",",
                                "0", ".", "5", "0", "0", "0", "0", "0", ")">>)

\* The nine bytes of the canonical empty INT4RANGE {1, 0, false, false}.
CanonicalEmptyBlob == <<1, 0, 0, 0, 0, 0, 0, 0, 0>>

\* C9: from_text inverts to_text on stored values: for every stored integer
\* range b, from_text(to_text(b)) is byte for byte b when b is not empty and
\* is the canonical empty encoding when b is empty; so
\* to_text(from_text(to_text(b))) is to_text(b).
C9_FromTextInvertsToText ==
    \A i \in Calls :
        (/\ i + 1 <= Len(trace)
         /\ trace[i].op = "Int4RangeToVarchar"
         /\ Len(trace[i].of) = 1
         /\ FromTextInt4(trace[i + 1]))
        => /\ trace[i + 1].out =
                Int4RangeBlob(IF EmptyDef(trace[i].of[1])
                              THEN CanonicalEmptyBlob
                              ELSE trace[i].args[1].val)
           /\ (/\ i + 2 <= Len(trace)
               /\ trace[i + 2].op = "Int4RangeToVarchar")
              => trace[i + 2].out = trace[i].out

\* The stored range (-2147483648,2147483647] was written as text, parsed
\* back to the same nine bytes, and written again.
C9_Witness ==
    /\ Len(trace) = 3
    /\ trace[1].op = "Int4RangeToVarchar"
    /\ trace[1].of = <<Int4Range(INT_MIN, INT_MAX, FALSE, TRUE)>>
    /\ trace[2].op = "VarcharToInt4RangeCast"
    /\ trace[2].out = trace[1].args[1]
    /\ trace[3].op = "Int4RangeToVarchar"
    /\ trace[3].out = trace[1].out

\* The shape of a bracketed literal: delimiters at both ends and a comma.
BracketShape(s) ==
    /\ Len(s) >= 3
    /\ Head(s) \in {"[", "("}
    /\ s[Len(s)] \in {"]", ")"}
    /\ \E k \in 1..Len(s) : s[k] = ","

\* C10: parsing any case variant of the word empty yields exactly the value
\* {lower 1, upper 0, both flags false} (1.0 and 0.0 for NUMRANGE), although
\* the word has no delimiters; and no other text is taken for the keyword: a
\* text that is not a variant of the word is parsed only if it has the shape
\* of a bracketed literal, and then its flags are those of its delimiters.
C10_EmptyKeyword ==
    \A i \in Calls :
        LET c == trace[i]
            s == c.args[1].val
        IN  /\ (FromTextInt4(c) /\ s \in EmptyVariants) =>
                /\ c.out.kind = "INT4RANGE"
                /\ DeserializeInt4Range(c.out.val) = Ok(Int4Range(1, 0, FALSE, FALSE))
                /\ i < Len(trace) =>
                    /\ trace[i + 1].op = "RangeLower"
                         => trace[i + 1].out = Integer(1)
                    /\ trace[i + 1].op = "RangeUpper"
                         => trace[i + 1].out = Integer(0)
                    /\ trace[i + 1].op \in {"RangeLowerInc", "RangeUpperInc"}
                         => trace[i + 1].out = Boolean(FALSE)
            /\ (FromTextNum(c) /\ s \in EmptyVariants) =>
                /\ c.out.kind = "NUMRANGE"
                /\ DeserializeNumRange(c.out.val)
                     = Ok(NumRange(1 * Scale, 0, FALSE, FALSE))
                /\ i < Len(trace) =>
                    /\ trace[i + 1].op = "NumRangeLower"
                         => trace[i + 1].out = Double(1 * Scale)
                    /\ trace[i + 1].op = "NumRangeUpper"
                         => trace[i + 1].out = Double(0)
                    /\ trace[i + 1].op \in {"NumRangeLowerInc", "NumRangeUpperInc"}
                         => trace[i + 1].out = Boolean(FALSE)
            /\ (/\ FromTextInt4(c) \/ FromTextNum(c)
                /\ s \notin EmptyVariants
                /\ c.out.kind \in {"INT4RANGE", "NUMRANGE"}) =>
                /\ BracketShape(s)
                /\ (c.out.val[Len(c.out.val)] \div 2) % 2 = 1 <=> Head(s) = "["
                /\ c.out.val[Len(c.out.val)] % 2 = 1 <=> s[Len(s)] = "]"

\* The text "EmPtY" was parsed, and the lower bound of the result is 1.
C10_Witness ==
    /\ Len(trace) = 2
    /\ trace[1].op = "Int4RangeConstructor1"
    /\ trace[1].args[1] = Varchar(<<"E", "m", "P", "t", "Y">>)
    /\ trace[2].op = "RangeLower"
    /\ trace[2].out = Integer(1)

\* A character of a decimal numeral.
NumeralChar(c) == IsDigit(c) \/ c \in {"-", "."}

\* The text t is delimiter, numeral, comma, numeral, delimiter, the
\* delimiters being those of the flags of r, and holds no other character.
BracketedAs(t, r) ==
    /\ BracketShape(t)
    /\ Head(t) = (IF r.lower_inc THEN "[" ELSE "(")
    /\ t[Len(t)] = (IF r.upper_inc THEN "]" ELSE ")")
    /\ \E k \in 2..(Len(t) - 1) :
          /\ t[k] = ","
          /\ \A j \in 2..(Len(t) - 1) : j # k => NumeralChar(t[j])
          /\ k > 2
          /\ k < Len(t) - 1

\* C11: to_text emits exactly "empty" for every range that is empty, whatever
\* its stored bounds and flags, and for every non-empty range emits '[' or
\* '(' by lower_inc, the decimal lower bound, a comma, the decimal upper bound
\* and ']' or ')' by upper_inc, and no other character.
C11_ToTextFormat ==
    \A i \in Calls :
        LET c == trace[i]
            r == c.of[1]
            t == c.out.val
        IN  /\ (c.op = "Int4RangeToVarchar" /\ Len(c.of) = 1) =>
                /\ c.out.kind = "VARCHAR"
                /\ EmptyDef(r) => t = EmptyWord
                /\ ~EmptyDef(r) =>
                    /\ BracketedAs(t, r)
                    /\ t = <<Head(t)>> \o ToStringInt(r.lower) \o <<",">>
                             \o ToStringInt(r.upper) \o <<t[Len(t)]>>
            /\ (c.op = "NumRangeToVarchar" /\ Len(c.of) = 1) =>
                /\ c.out.kind = "VARCHAR"
                /\ EmptyDef(r) => t = EmptyWord
                /\ ~EmptyDef(r) =>
                    /\ BracketedAs(t, r)
                    /\ \E lt \in ToStringDouble(r.lower), ut \in ToStringDouble(r.upper) :
                          t = <<Head(t)>> \o lt \o <<",">> \o ut \o <<t[Len(t)]>>

\* The stored range [2147483647,-2147483648], empty by its inverted bounds,
\* was written as "empty".
C11_Witness ==
    /\ Len(trace) = 1
    /\ trace[1].op = "Int4RangeToVarchar"
    /\ trace[1].of = <<Int4Range(INT_MAX, INT_MIN, TRUE, TRUE)>>
    /\ trace[1].out = Varchar(EmptyWord)

\* The texts of the two bounds of a delimiter-valid literal: between the
\* opening delimiter and the first comma, and from there to the closing
\* delimiter.
LowerText(s) == SubSeq(s, 2, FindComma(s) - 1)

UpperText(s) == SubSeq(s, FindComma(s) + 1, Len(s) - 1)

\* C12: for a well-formed bracketed literal '<L>a,b<U>' (delimiters L and U,
\* between them the numerals a and b and one comma), from_text yields
\* lower a, upper b, lower_inc = (L is '[') and upper_inc = (U is ']'),
\* exactly as written: a literal that denotes an empty range (a > b, or a = b
\* without '[]') is not replaced by the canonical empty value, and the
\* accessors of the result return a, b and the written flags.
C12_ParseAsWritten ==
    \A i \in Calls :
        LET c == trace[i]
            s == c.args[1].val
            l == Head(s)
            u == s[Len(s)]
        IN  /\ (FromTextInt4(c) /\ BracketShape(s)) =>
                \A a \in IntVals : LowerText(s) = ToStringInt(a) =>
                    \A b \in IntVals : UpperText(s) = ToStringInt(b) =>
                        /\ c.out.kind = "INT4RANGE"
                        /\ DeserializeInt4Range(c.out.val)
                             = Ok(Int4Range(a, b, l = "[", u = "]"))
                        /\ i < Len(trace) =>
                            /\ trace[i + 1].op = "RangeLower"
                                 => trace[i + 1].out = Integer(a)
                            /\ trace[i + 1].op = "RangeUpper"
                                 => trace[i + 1].out = Integer(b)
                            /\ trace[i + 1].op = "RangeLowerInc"
                                 => trace[i + 1].out = Boolean(l = "[")
                            /\ trace[i + 1].op = "RangeUpperInc"
                                 => trace[i + 1].out = Boolean(u = "]")
            /\ (FromTextNum(c) /\ BracketShape(s)) =>
                \A a \in NumVals : LowerText(s) = NumNumeral(a) =>
                    \A b \in NumVals : UpperText(s) = NumNumeral(b) =>
                        /\ c.out.kind = "NUMRANGE"
                        /\ DeserializeNumRange(c.out.val)
                             = Ok(NumRange(a, b, l = "[", u = "]"))
                        /\ i < Len(trace) =>
                            /\ trace[i + 1].op = "NumRangeLower"
                                 => trace[i + 1].out = Double(a)
                            /\ trace[i + 1].op = "NumRangeUpper"
                                 => trace[i + 1].out = Double(b)
                            /\ trace[i + 1].op = "NumRangeLowerInc"
                                 => trace[i + 1].out = Boolean(l = "[")
                            /\ trace[i + 1].op = "NumRangeUpperInc"
                                 => trace[i + 1].out = Boolean(u = "]")

\* The literal "[0,-1]" denotes an empty range; it was parsed, and the
\* result still says that its upper bound is inclusive.
C12_Witness ==
    /\ Len(trace) = 2
    /\ trace[1].op = "Int4RangeConstructor1"
    /\ trace[1].args[1] = Varchar(<<"[", "0", ",", "-", "1", "]">>)
    /\ trace[2].op = "RangeUpperInc"
    /\ trace[2].out = Boolean(TRUE)

\* C13: from_text rejects with a MalformedLiteral error, and produces no
\* value, every text other than the word empty that is shorter than three
\* characters, or does not begin with '[' or '(', or does not end with ']' or
\* ')', or holds no comma.
C13_MalformedLiteral ==
    \A i \in Calls :
        LET c == trace[i]
            s == c.args[1].val
        IN  ( /\ FromTextInt4(c) \/ FromTextNum(c)
              /\ s \notin EmptyVariants
              /\ \/ Len(s) < 3
                 \/ Head(s) \notin {"[", "("}
                 \/ s[Len(s)] \notin {"]", ")"}
                 \/ \A k \in 1..Len(s) : s[k] # "," )
            => c.out = Error("MalformedLiteral")

\* The text "[1 0)", which has both delimiters and no comma, was rejected.
C13_Witness ==
    /\ Len(trace) = 1
    /\ trace[1].op = "VarcharToInt4RangeCast"
    /\ trace[1].args[1] = Varchar(<<"[", "1", " ", "0", ")">>)
    /\ trace[1].out = Error("MalformedLiteral")

\* The text t is, in its entirety, a decimal integer: an optional sign and
\* one or more digits.
IntLiteralShape(t) ==
    LET u == AfterSign(t)
    IN  u # <<>> /\ \A k \in 1..Len(u) : IsDigit(u[k])

\* The text t is, in its entirety, a decimal number: an optional sign and
\* digits with at most one point among them, one digit at least.
NumLiteralShape(t) ==
    LET u == AfterSign(t)
    IN  /\ \A k \in 1..Len(u) : IsDigit(u[k]) \/ u[k] = "."
        /\ \E k \in 1..Len(u) : IsDigit(u[k])
        /\ Cardinality({k \in 1..Len(u) : u[k] = "."}) <= 1

\* C14: from_text rejects with InvalidScalar every delimiter-valid literal in
\* which the text of the lower bound or the text of the upper bound is not in
\* its entirety a valid scalar literal: an empty text, a text with leading
\* whitespace, a number followed by other characters, an upper text that
\* itself holds a comma.
C14_InvalidScalar ==
    \A i \in Calls :
        LET c == trace[i]
            s == c.args[1].val
        IN  /\ ( /\ FromTextInt4(c)
                 /\ s \notin EmptyVariants
                 /\ BracketShape(s)
                 /\ ~(IntLiteralShape(LowerText(s)) /\ IntLiteralShape(UpperText(s))) )
                => c.out = Error("InvalidScalar")
            /\ ( /\ FromTextNum(c)
                 /\ s \notin EmptyVariants
                 /\ BracketShape(s)
                 /\ ~(NumLiteralShape(LowerText(s)) /\ NumLiteralShape(UpperText(s))) )
                => c.out = Error("InvalidScalar")

\* The kinds of the two range types, and the fixed width of each encoding.
RangeKinds == {"INT4RANGE", "NUMRANGE"}

FixedWidth(kind) == IF kind = "INT4RANGE" THEN 9 ELSE 17

\* The positions of the arguments of a call that are encoded ranges.
RangeArgs(c) == {k \in 1..Len(c.args) : c.args[k].kind \in RangeKinds}

\* An argument with the bytes after the fixed width of its encoding removed.
Truncated(a) ==
    IF a.kind \in RangeKinds
    THEN [a EXCEPT !.val = SubSeq(a.val, 1, FixedWidth(a.kind))]
    ELSE a

\* The results the handler op may give for the arguments a.
Results(op, a) ==
    CASE op = "Int4RangeToVarchar"  -> {Int4RangeToVarcharRow(a[1])}
      [] op = "RangeOverlaps"       -> {RangeOverlapsRow(a[1], a[2])}
      [] op = "RangeContains"       -> {RangeContainsRow(a[1], a[2])}
      [] op = "RangeContainedBy"    -> {RangeContainedByRow(a[1], a[2])}
      [] op = "RangeLower"          -> {RangeLowerRow(a[1])}
      [] op = "RangeUpper"          -> {RangeUpperRow(a[1])}
      [] op = "RangeIsEmpty"        -> {RangeIsEmptyRow(a[1])}
      [] op = "RangeLowerInc"       -> {RangeLowerIncRow(a[1])}
      [] op = "RangeUpperInc"       -> {RangeUpperIncRow(a[1])}
      [] op = "NumRangeToVarchar"   -> NumRangeToVarcharRow(a[1])
      [] op = "NumRangeOverlaps"    -> {NumRangeOverlapsRow(a[1], a[2])}
      [] op = "NumRangeContains"    -> {NumRangeContainsRow(a[1], a[2])}
      [] op = "NumRangeContainedBy" -> {NumRangeContainedByRow(a[1], a[2])}
      [] op = "NumRangeLower"       -> {NumRangeLowerRow(a[1])}
      [] op = "NumRangeUpper"       -> {NumRangeUpperRow(a[1])}
      [] op = "NumRangeIsEmpty"     -> {NumRangeIsEmptyRow(a[1])}
      [] op = "NumRangeLowerInc"    -> {NumRangeLowerIncRow(a[1])}
      [] op = "NumRangeUpperInc"    -> {NumRangeUpperIncRow(a[1])}

\* C15: deserialize, and with it every accessor, predicate and to_text, fails
\* with MalformedEncoding exactly when a byte sequence it is given is shorter
\* than the fixed width (9 for INT4RANGE, 17 for NUMRANGE); on a sequence of
\* that length or more it succeeds, and the result depends only on the first
\* fixed-width bytes: bytes after them never change it.
C15_MalformedEncoding ==
    \A i \in Calls :
        LET c     == trace[i]
            short == \E k \in RangeArgs(c) :
                        Len(c.args[k].val) < FixedWidth(c.args[k].kind)
        IN  RangeArgs(c) # {} =>
                /\ short => c.out = Error("MalformedEncoding")
                /\ ~short =>
                    /\ c.out.kind # "error"
                    /\ c.out \in Results(c.op, [k \in 1..Len(c.args) |->
                                                   Truncated(c.args[k])])

\* The upper bound was read from a blob of ten bytes, the encoding of [0,1)
\* and one byte more: it is 1.
C15_Witness ==
    /\ Len(trace) = 1
    /\ trace[1].op = "RangeUpper"
    /\ trace[1].args[1] = Int4RangeBlob(<<0, 0, 0, 0, 1, 0, 0, 0, 2, 7>>)
    /\ trace[1].out = Integer(1)

\* The flag byte of the encoding of a range with these flags.
FlagByte(li, ui) == 2 * (IF li THEN 1 ELSE 0) + (IF ui THEN 1 ELSE 0)

\* The flags the bounds notation gives to each of its four tokens.
NotationFlags(token) ==
    CASE token = <<"[", ")">> -> <<TRUE, FALSE>>
      [] token = <<"[", "]">> -> <<TRUE, TRUE>>
      [] token = <<"(", "]">> -> <<FALSE, TRUE>>
      [] token = <<"(", ")">> -> <<FALSE, FALSE>>

Notation == {<<"[", ")">>, <<"[", "]">>, <<"(", "]">>, <<"(", ")">>}

\* C16: the constructors agree on the flags: construct(l,u,'[)') stores
\* (true,false), '[]' (true,true), '(]' (false,true), '()' (false,false);
\* construct(l,u,li,ui) stores li and ui unchanged; and construct(l,u),
\* construct(l,u,''), construct(l,u,'[)'), construct(l,u,true,false) and
\* from_text('[l,u)') all give the same bytes, for every l and u.
C16_ConstructorsAgree ==
    \A i \in Calls :
        LET c == trace[i]
            b == c.out.val
            l == c.args[1].val
            u == c.args[2].val
        IN  /\ (c.op = "Int4RangeConstructor" /\ c.args[3].val \in Notation) =>
                /\ c.out.kind = "INT4RANGE"
                /\ b = Int32Bytes(l) \o Int32Bytes(u)
                         \o <<FlagByte(NotationFlags(c.args[3].val)[1],
                                       NotationFlags(c.args[3].val)[2])>>
            /\ (c.op = "Int4RangeConstructor" /\ c.args[3].val \in {<<>>, <<"[", ")">>}) =>
                c.out = Int4RangeBlob(Int32Bytes(l) \o Int32Bytes(u) \o <<2>>)
            /\ c.op = "Int4RangeConstructor2" =>
                c.out = Int4RangeBlob(Int32Bytes(l) \o Int32Bytes(u) \o <<2>>)
            /\ BuiltInt4(c) =>
                b = Int32Bytes(l) \o Int32Bytes(u)
                      \o <<FlagByte(c.args[3].val, c.args[4].val)>>
            /\ ( /\ FromTextInt4(c)
                 /\ BracketShape(l)
                 /\ Head(l) = "["
                 /\ l[Len(l)] = ")" ) =>
                \A x \in IntVals : LowerText(l) = ToStringInt(x) =>
                    \A y \in IntVals : UpperText(l) = ToStringInt(y) =>
                        c.out = Int4RangeBlob(Int32Bytes(x) \o Int32Bytes(y) \o <<2>>)
            /\ (c.op = "NumRangeConstructor" /\ c.args[3].val \in Notation) =>
                /\ c.out.kind = "NUMRANGE"
                /\ b = DoubleBytes(l) \o DoubleBytes(u)
                         \o <<FlagByte(NotationFlags(c.args[3].val)[1],
                                       NotationFlags(c.args[3].val)[2])>>
            /\ (c.op = "NumRangeConstructor" /\ c.args[3].val \in {<<>>, <<"[", ")">>}) =>
                c.out = NumRangeBlob(DoubleBytes(l) \o DoubleBytes(u) \o <<2>>)
            /\ c.op = "NumRangeConstructor2" =>
                c.out = NumRangeBlob(DoubleBytes(l) \o DoubleBytes(u) \o <<2>>)
            /\ BuiltNum(c) =>
                b = DoubleBytes(l) \o DoubleBytes(u)
                      \o <<FlagByte(c.args[3].val, c.args[4].val)>>
            /\ ( /\ FromTextNum(c)
                 /\ BracketShape(l)
                 /\ Head(l) = "["
                 /\ l[Len(l)] = ")" ) =>
                \A x \in NumVals : LowerText(l) = NumNumeral(x) =>
                    \A y \in NumVals : UpperText(l) = NumNumeral(y) =>
                        c.out = NumRangeBlob(DoubleBytes(x) \o DoubleBytes(y) \o <<2>>)

\* The two-argument constructor built [-1,1): the nine bytes that
\* construct(-1,1,true,false) gives.
C16_Witness ==
    /\ Len(trace) = 1
    /\ trace[1].op = "Int4RangeConstructor2"
    /\ trace[1].args = <<Integer(-1), Integer(1)>>
    /\ trace[1].out = Int4RangeBlob(<<255, 255, 255, 255, 1, 0, 0, 0, 2>>)

\* C17: the three-argument constructor fails with InvalidBoundsNotation, and
\* builds no range, for every non-empty token other than '[)', '[]', '(]' and
\* '()', whatever its length (a reversed token such as ')[', a token of one
\* or three characters): it never falls back to the default '[)'.
C17_InvalidBoundsNotation ==
    \A i \in Calls :
        LET c == trace[i]
        IN  ( /\ c.op \in {"Int4RangeConstructor", "NumRangeConstructor"}
              /\ c.args[3].val # <<>>
              /\ c.args[3].val \notin Notation )
            => c.out = Error("InvalidBoundsNotation")

\* construct(0, 1, ')[') was refused.
C17_Witness ==
    /\ Len(trace) = 1
    /\ trace[1].op = "Int4RangeConstructor"
    /\ trace[1].args = <<Integer(0), Integer(1), Varchar(<<")", "[">>)>>
    /\ trace[1].out = Error("InvalidBoundsNotation")

\* The kind of value each handler that reads a range returns.
ResultKind(op) ==
    IF op \in {"Int4RangeToVarchar", "NumRangeToVarchar"} THEN "VARCHAR"
    ELSE IF op = "RangeLower" \/ op = "RangeUpper" THEN "INTEGER"
    ELSE IF op = "NumRangeLower" \/ op = "NumRangeUpper" THEN "DOUBLE"
    ELSE "BOOLEAN"

C19_OverlapAdjacency ==
    \A i \in Calls :
        LET c  == trace[i]
            r1 == c.of[1]
            r2 == c.of[2]
        IN  ( /\ c.op \in {"RangeOverlaps", "NumRangeOverlaps"}
              /\ Len(c.of) = 2
              /\ ~EmptyDef(r1)
              /\ ~EmptyDef(r2)
              /\ r1.upper = r2.lower )
            => /\ c.out = Boolean(r1.upper_inc /\ r2.lower_inc)
               /\ (~r1.upper_inc /\ r2.lower_inc) => c.out = Boolean(FALSE)
               /\ (r1.upper_inc /\ r2.lower_inc) => c.out = Boolean(TRUE)

\* overlaps was asked of the half-open ranges [-1,0) and [0,1), which touch
\* at 0, and answered false.
C19_Witness ==
    /\ Len(trace) = 1
    /\ trace[1].op = "RangeOverlaps"
    /\ trace[1].of = <<Int4Range(-1, 0, TRUE, FALSE), Int4Range(0, 1, TRUE, FALSE)>>
    /\ trace[1].out = Boolean(FALSE)

RowOf(b, k) == b.data[b.sel[k]]

\* Row k has a null input.
NullRow(b, k) == \E a \in 1..Len(RowOf(b, k)) : IsNull(RowOf(b, k)[a])

\* The results of the single-value function of `op` on one row alone.
Single(op, row) ==
    CASE op = "Int4RangeConstructor4" ->
             {Int4RangeConstructor4Row(row[1], row[2], row[3], row[4])}
      [] op = "VarcharToInt4RangeCast" -> {VarcharToInt4RangeCastRow(row[1])}
      [] op = "Int4RangeToVarchar" -> {Int4RangeToVarcharRow(row[1])}
      [] op = "NumRangeConstructor4" ->
             {NumRangeConstructor4Row(row[1], row[2], row[3], row[4])}
      [] op = "VarcharToNumRangeCast" -> {VarcharToNumRangeCastRow(row[1])}
      [] op = "NumRangeToVarchar" -> NumRangeToVarcharRow(row[1])

\* C21: the loops of the 4-argument constructor and of the two casts are a
\* pointwise map with out-of-band nulls.  A row with a null input gets a
\* null result and the conversion is never called for it; every other row
\* that gets a result gets the result of the single-value function on that
\* row alone, whatever the other rows and their order; a vector the handler
\* returns has a result for every row; and the handler fails only with the
\* failure of the single-value function on the row it was at.
C21_PointwiseBatch ==
    batch.op # "none" =>
        /\ \A k \in 1..Len(batch.sel) : NullRow(batch, k) => k \notin batch.invoked
        /\ \A k \in 1..Len(batch.result) :
              IF NullRow(batch, k)
              THEN batch.result[k] = NullValue
              ELSE /\ k \in batch.invoked
                   /\ batch.result[k] \in Single(batch.op, RowOf(batch, k))
        /\ Returned(batch) => Len(batch.result) = Len(batch.sel)
        /\ batch.status = "failed" =>
              Error(batch.error) \in Single(batch.op, RowOf(batch, batch.i))

\* A returned vector with a null row before a row that has a range, read
\* through a selection vector that is not the identity.
C21_Witness ==
    /\ Returned(batch)
    /\ batch.op = "VarcharToInt4RangeCast"
    /\ \E j \in 1..Len(batch.sel), k \in 1..Len(batch.sel) :
          /\ j < k
          /\ batch.sel[j] > batch.sel[k]
          /\ NullRow(batch, j)
          /\ batch.result[j] = NullValue
          /\ batch.result[k].kind = "INT4RANGE"

\* The result of the call of a thread when it is made alone.
Alone(f) ==
    CASE f.op = "Int4RangeConstructor4" ->
             Int4RangeConstructor4Row(f.args[1], f.args[2], f.args[3], f.args[4])
      [] f.op = "VarcharToInt4RangeCast" -> VarcharToInt4RangeCastRow(f.args[1])
      [] f.op = "Int4RangeToVarchar" -> Int4RangeToVarcharRow(f.args[1])
      [] f.op = "RangeOverlaps" -> RangeOverlapsRow(f.args[1], f.args[2])
      [] f.op = "RangeContains" -> RangeContainsRow(f.args[1], f.args[2])
      [] f.op = "RangeLower" -> RangeLowerRow(f.args[1])

\* C22: calls made at once do not interfere.  However the steps of the
\* calls of the threads interleave, a call that has returned has returned
\* the result the same call gives when made alone.
C22_NoInterference ==
    \A t \in Threads :
        threads[t].pc = "done" =>
            /\ threads[t].out.kind = Alone(threads[t]).kind
            /\ threads[t].out = Alone(threads[t])

\* Two calls on different ranges are made at once: one has returned the
\* bytes of its own range while the other has written its two bounds and has
\* its flag byte still to write.
C22_Witness ==
    \E t \in Threads, u \in Threads :
        /\ t # u
        /\ threads[t].op = "Int4RangeConstructor4"
        /\ threads[u].op = "VarcharToInt4RangeCast"
        /\ threads[t].pc = "done"
        /\ threads[u].pc = "bounds"
        /\ threads[t].out = Int4RangeBlob(SerializeInt4Range(threads[t].range))
        /\ buffers[ResultOf(t)] # buffers[ResultOf(u)]
        /\ buffers[ResultOf(t)][1] # 0
        /\ buffers[ResultOf(u)][SizeofInt32 + 1] # 0

\* The integers that can be the least member of a range: its lower bound and
\* the integer after it.
LeastMembers(r) == {r.lower} \cup (IF r.lower < INT_MAX THEN {r.lower + 1} ELSE {})

\* Some 32-bit integer is contained in both stored ranges, by RangeContains.
\* The least such integer is the least member of one of the two.
SharedMember(blob1, blob2, r1, r2) ==
    \E v \in LeastMembers(r1) \cup LeastMembers(r2) :
        /\ RangeContainsRow(blob1, Integer(v)) = Boolean(TRUE)
        /\ RangeContainsRow(blob2, Integer(v)) = Boolean(TRUE)

\* C23: for the integer variant, overlaps(r1, r2) is true exactly when some
\* 32-bit integer is contained in both r1 and r2.
C23_OverlapsSharedMember ==
    \A i \in Calls :
        LET c == trace[i]
        IN  (c.op = "RangeOverlaps" /\ Len(c.of) = 2) =>
                c.out = Boolean(SharedMember(c.args[1], c.args[2],
                                             c.of[1], c.of[2]))

\* C24: for the integer variant, is_empty(r) is true exactly when no 32-bit
\* integer is contained in r.
C24_EmptyNoMember ==
    \A i \in Calls :
        LET c == trace[i]
        IN  (c.op = "RangeIsEmpty" /\ i > 1 /\ BuiltInt4(trace[i - 1])) =>
                c.out = Boolean(~ \E v \in LeastMembers(Built(trace[i - 1])) :
                                      RangeContainsRow(c.args[1], Integer(v))
                                          = Boolean(TRUE))

\* C25: overlaps is symmetric, and reflexive exactly on non-empty ranges.
\* A call of overlaps returns what the call with the operands exchanged
\* returns, and on twice the same range it returns the negation of is_empty
\* of that range; in both instantiations.
C25_OverlapsSymmetric ==
    \A i \in Calls :
        LET c == trace[i]
        IN  /\ c.op = "RangeOverlaps" =>
                /\ c.out = RangeOverlapsRow(c.args[2], c.args[1])
                /\ (Len(c.of) = 2 /\ c.of[1] = c.of[2]) =>
                       c.out = Boolean(~RangeIsEmptyRow(c.args[1]).val)
            /\ c.op = "NumRangeOverlaps" =>
                /\ c.out = NumRangeOverlapsRow(c.args[2], c.args[1])
                /\ (Len(c.of) = 2 /\ c.of[1] = c.of[2]) =>
                       c.out = Boolean(~NumRangeIsEmptyRow(c.args[1]).val)

\* Overlap was asked of two different ranges that overlap, of which the
\* first begins left of the second.
C25_Witness ==
    \E i \in Calls :
        /\ trace[i].op = "RangeOverlaps"
        /\ Len(trace[i].of) = 2
        /\ trace[i].of[1].lower < trace[i].of[2].lower
        /\ trace[i].of[1].upper < trace[i].of[2].upper
        /\ trace[i].out = Boolean(TRUE)

\* An integer that the doubles of the model hold.
Whole(v) == v \in -MaxInt..MaxInt

\* A stored INT4RANGE with bounds the doubles of the model hold.
WholeRange(blob) ==
    /\ DeserializeInt4Range(blob.val).ok
    /\ Whole(DeserializeInt4Range(blob.val).val.lower)
    /\ Whole(DeserializeInt4Range(blob.val).val.upper)

\* The integer v as a DOUBLE argument.
AsDouble(v) == Double(v.val * Scale)

\* The stored NUMRANGE with the bounds and flags of a stored INT4RANGE.
AsNumRange(blob) ==
    LET r == DeserializeInt4Range(blob.val).val
    IN  NumRangeBlob(SerializeNumRange(
            NumRange(r.lower * Scale, r.upper * Scale, r.lower_inc, r.upper_inc)))

\* C26: the two instantiations do not drift.  On ranges with integer bounds
\* and on integer scalars, the INT4RANGE functions is_empty, overlaps,
\* contains, contained_by, lower_inc and upper_inc return what the NUMRANGE
\* functions return on the same bounds and flags; the two 3-argument
\* constructors accept and reject the same notation tokens, with the same
\* flags; and the two parsers accept and reject the same delimiter shapes.
C26_NoDrift ==
    \A i \in Calls :
        LET c == trace[i]
        IN  /\ (c.op = "RangeIsEmpty" /\ WholeRange(c.args[1])) =>
                c.out = NumRangeIsEmptyRow(AsNumRange(c.args[1]))
            /\ (c.op = "RangeLowerInc" /\ WholeRange(c.args[1])) =>
                c.out = NumRangeLowerIncRow(AsNumRange(c.args[1]))
            /\ (c.op = "RangeUpperInc" /\ WholeRange(c.args[1])) =>
                c.out = NumRangeUpperIncRow(AsNumRange(c.args[1]))
            /\ (c.op = "RangeOverlaps" /\ WholeRange(c.args[1])
                                       /\ WholeRange(c.args[2])) =>
                c.out = NumRangeOverlapsRow(AsNumRange(c.args[1]),
                                            AsNumRange(c.args[2]))
            /\ (c.op = "RangeContains" /\ WholeRange(c.args[1])
                                       /\ Whole(c.args[2].val)) =>
                c.out = NumRangeContainsRow(AsNumRange(c.args[1]),
                                            AsDouble(c.args[2]))
            /\ (c.op = "RangeContainedBy" /\ WholeRange(c.args[2])
                                          /\ Whole(c.args[1].val)) =>
                c.out = NumRangeContainedByRow(AsDouble(c.args[1]),
                                               AsNumRange(c.args[2]))
            /\ (c.op = "Int4RangeConstructor" /\ Whole(c.args[1].val)
                                              /\ Whole(c.args[2].val)) =>
                LET n == NumRangeConstructorRow(AsDouble(c.args[1]),
                                                AsDouble(c.args[2]), c.args[3])
                IN  IF c.out.kind = "error"
                    THEN n = c.out
                    ELSE /\ n.kind = "NUMRANGE"
                         /\ n = AsNumRange(c.out)
            /\ (c.op = "VarcharToNumRangeCast" /\ ~IsNull(c.args[1])) =>
                ((c.out = Error("MalformedLiteral"))
                    <=> (VarcharToInt4RangeCastRow(c.args[1])
                            = Error("MalformedLiteral")))
            /\ (c.op = "VarcharToInt4RangeCast" /\ ~IsNull(c.args[1])
                                                /\ ~BracketShape(c.args[1].val)) =>
                IF c.out.kind = "error"
                THEN VarcharToNumRangeCastRow(c.args[1]) = c.out
                ELSE VarcharToNumRangeCastRow(c.args[1]).kind = "NUMRANGE"

\* The range [1,1) was asked whether it is empty, and it is.
C26_Witness ==
    /\ Len(trace) = 2
    /\ trace[1].op = "Int4RangeConstructor4"
    /\ trace[1].out = Int4RangeBlob(SerializeInt4Range(Int4Range(1, 1, TRUE, FALSE)))
    /\ trace[2].op = "RangeIsEmpty"
    /\ trace[2].out = Boolean(TRUE)

\* A decimal numeral as one writes an integer: digits, with a minus sign for
\* a negative number and no leading zero.
Numeral(t) ==
    LET ds == IF t # <<>> /\ Head(t) = "-" THEN Tail(t) ELSE t
    IN  /\ ds # <<>>
        /\ \A k \in 1..Len(ds) : IsDigit(ds[k])
        /\ Len(ds) > 1 => ds[1] # "0"
        /\ t # <<"-", "0">>

RECURSIVE DigitsAbove(_, _)
\* Of two runs of digits of one length, the first writes the larger number.
DigitsAbove(ds, limit) ==
    IF ds = <<>>
    THEN FALSE
    ELSE IF Head(ds) # Head(limit)
         THEN DigitVal(Head(ds)) > DigitVal(Head(limit))
         ELSE DigitsAbove(Tail(ds), Tail(limit))

\* A numeral of a number below -2147483648 or above 2147483647, told by its
\* digits.
Beyond(t) ==
    /\ Numeral(t)
    /\ LET neg   == Head(t) = "-"
           ds    == IF neg THEN Tail(t) ELSE t
           limit == IF neg THEN Tail(IntMinText) ELSE IntMaxText
       IN  \/ Len(ds) > Len(limit)
           \/ (Len(ds) = Len(limit) /\ DigitsAbove(ds, limit))

\* C27: a bracketed INT4RANGE literal with a bound outside the 32-bit signed
\* range is rejected by from_text with InvalidScalar; the bound is never
\* wrapped or clamped: in every INT4RANGE that from_text returns, a bound
\* written as a numeral has the value written.
C27_OutOfRangeRejected ==
    \A i \in Calls :
        LET c == trace[i]
            s == c.args[1].val
        IN  (/\ c.op \in {"VarcharToInt4RangeCast", "Int4RangeConstructor1"}
             /\ ~IsNull(c.args[1])
             /\ BracketShape(s)) =>
                /\ (Beyond(LowerText(s)) \/ Beyond(UpperText(s))) =>
                       c.out = Error("InvalidScalar")
                /\ (c.out.kind = "INT4RANGE" /\ Numeral(LowerText(s))) =>
                       ToStringInt(Int32At(c.out.val, 0)) = LowerText(s)
                /\ (c.out.kind = "INT4RANGE" /\ Numeral(UpperText(s))) =>
                       ToStringInt(Int32At(c.out.val, SizeofInt32)) = UpperText(s)

\* from_text rejected a literal whose lower bound is 2147483647 and whose
\* upper bound is one more.
C27_Witness ==
    \E i \in Calls :
        /\ trace[i].op = "VarcharToInt4RangeCast"
        /\ ~IsNull(trace[i].args[1])
        /\ BracketShape(trace[i].args[1].val)
        /\ LowerText(trace[i].args[1].val) = IntMaxText
        /\ Beyond(UpperText(trace[i].args[1].val))
        /\ trace[i].out = Error("InvalidScalar")
=============================================================================
